---- MODULE Spec2Model ----
(***************************************************************************)
(* Hybrid position estimation and blending engine of the Yamanote line     *)
(* tracker (backend/train_position.py).                                    *)
(*                                                                         *)
(* Numbers.  The program computes with floats; the model computes with     *)
(* integers in fixed point:                                                *)
(*   - a progress p is the integer p * PROGRESS_ONE (PROGRESS_ONE = 1.0);  *)
(*   - a coordinate is an integer number of coordinate units;              *)
(*   - a distance in metres is an integer, rounded down.                   *)
(* Python's None is the string NoneVal where a station id or a record is   *)
(* expected and the integer NoneNum where a number is expected.            *)
(***************************************************************************)
EXTENDS Integers, Sequences, FiniteSets, TLC

VARIABLES
    call,                  \* the function called and its arguments
    ret,                   \* what it returned, Pending while it runs
    done,                  \* get_*_train_positions: the number of states the loop has taken
    results,               \* get_*_train_positions: result / results
    skipped,               \* get_yamanote_train_positions: skipped
    blend_stats,           \* get_blended_train_positions: blend_stats
    neighbor_found_count,  \* get_blended_train_positions: neighbor_found_count
    locals,                \* get_blended_train_positions: the locals of the last turn
    log,                   \* the summary line written by logger.info before returning
    runs                   \* what the earlier calls with the same arguments returned

vars == <<call, ret, done, results, skipped, blend_stats, neighbor_found_count, locals, log, runs>>

NoneVal == "None"

-----------------------------------------------------------------------------
(* Station topology: train_position.py, lines 124-161.                     *)

YAMANOTE_STATION_ORDER == <<
    "JR-East.Yamanote.Osaki",
    "JR-East.Yamanote.Gotanda",
    "JR-East.Yamanote.Meguro",
    "JR-East.Yamanote.Ebisu",
    "JR-East.Yamanote.Shibuya",
    "JR-East.Yamanote.Harajuku",
    "JR-East.Yamanote.Yoyogi",
    "JR-East.Yamanote.Shinjuku",
    "JR-East.Yamanote.ShinOkubo",
    "JR-East.Yamanote.Takadanobaba",
    "JR-East.Yamanote.Mejiro",
    "JR-East.Yamanote.Ikebukuro",
    "JR-East.Yamanote.Otsuka",
    "JR-East.Yamanote.Sugamo",
    "JR-East.Yamanote.Komagome",
    "JR-East.Yamanote.Tabata",
    "JR-East.Yamanote.NishiNippori",
    "JR-East.Yamanote.Nippori",
    "JR-East.Yamanote.Uguisudani",
    "JR-East.Yamanote.Ueno",
    "JR-East.Yamanote.Okachimachi",
    "JR-East.Yamanote.Akihabara",
    "JR-East.Yamanote.Kanda",
    "JR-East.Yamanote.Tokyo",
    "JR-East.Yamanote.Yurakucho",
    "JR-East.Yamanote.Shimbashi",
    "JR-East.Yamanote.Hamamatsucho",
    "JR-East.Yamanote.Tamachi",
    "JR-East.Yamanote.TakanawaGateway",
    "JR-East.Yamanote.Shinagawa"
>>

NUM_YAMANOTE_STATIONS == Len(YAMANOTE_STATION_ORDER)

\* The ordinals are counted from 1 (enumerate(ORDER, 1)).
MutStationIndexFromOne ==
    [s \in {YAMANOTE_STATION_ORDER[i] : i \in 1..Len(YAMANOTE_STATION_ORDER)} |->
        CHOOSE i \in 1..Len(YAMANOTE_STATION_ORDER) :
            /\ YAMANOTE_STATION_ORDER[i] = s
            /\ \A j \in (i+1)..Len(YAMANOTE_STATION_ORDER) :
                  YAMANOTE_STATION_ORDER[j] # s]

\* {station_id: idx for idx, station_id in enumerate(ORDER)}: a later
\* occurrence of an id overwrites an earlier one.  Ordinals are 0-based.
YAMANOTE_STATION_INDEX ==
    [s \in {YAMANOTE_STATION_ORDER[i] : i \in 1..Len(YAMANOTE_STATION_ORDER)} |->
        (CHOOSE i \in 1..Len(YAMANOTE_STATION_ORDER) :
            /\ YAMANOTE_STATION_ORDER[i] = s
            /\ \A j \in (i+1)..Len(YAMANOTE_STATION_ORDER) :
                  YAMANOTE_STATION_ORDER[j] # s) - 1]

\* YAMANOTE_STATION_ORDER[k] with Python's 0-based index k.
station_at(k) == YAMANOTE_STATION_ORDER[k + 1]

-----------------------------------------------------------------------------
(* Numbers.                                                                *)

\* 1.0 as a progress; a progress p of the program is p * PROGRESS_ONE here.
PROGRESS_ONE == 360

\* None where the program expects a number (a malformed record).
NoneNum == -1000000

\* Metres per coordinate unit along a meridian and along the parallel of
\* the line (a degree of longitude is cos(latitude), about 0.8, of a degree
\* of latitude at 35.7 N).
METERS_PER_LAT_UNIT == 25

METERS_PER_LON_UNIT == 20

RECURSIVE ISqrtBetween(_, _, _)
\* The largest r in lo..hi with r * r <= n (lo * lo <= n < (hi + 1)^2).
ISqrtBetween(n, lo, hi) ==
    IF lo >= hi THEN lo
    ELSE LET mid == (lo + hi + 1) \div 2
         IN  IF mid * mid <= n THEN ISqrtBetween(n, mid, hi)
                               ELSE ISqrtBetween(n, lo, mid - 1)

\* math.sqrt, rounded down to an integer (n < 2^30).
ISqrt(n) == ISqrtBetween(n, 0, 32767)

Min2(a, b) == IF a <= b THEN a ELSE b

Max2(a, b) == IF a >= b THEN a ELSE b

\* The progress is used as it is given.
MutNoClamp(p) == p

\* max(0.0, min(1.0, p))
Clamp01(p) == Max2(0, Min2(PROGRESS_ONE, p))

\* list[::-1]
Reverse(seq) == [i \in 1..Len(seq) |-> seq[Len(seq) + 1 - i]]

\* list[a:b] for 0 <= a and 0 <= b (Python clips both to the length).
Slice(seq, a, b) ==
    LET lo == Min2(a, Len(seq))
        hi == Min2(b, Len(seq))
    IN  IF hi <= lo THEN << >> ELSE [i \in 1..(hi - lo) |-> seq[lo + i]]

\* list[a:b:-1] for a >= 0 and b >= -1 written as the last index taken:
\* the elements a, a-1, ..., last (0-based), a clipped to the length.
SliceDown(seq, a, last) ==
    LET hi == Min2(a, Len(seq) - 1)
    IN  IF hi < last THEN << >> ELSE [i \in 1..(hi - last + 1) |-> seq[hi + 2 - i]]

-----------------------------------------------------------------------------
(* Geometry helpers.                                                       *)

\* Great-circle distance in metres.  At the scale of one line the haversine
\* formula is the equirectangular distance; rounded down to a metre.
haversine_distance(lat1, lon1, lat2, lon2) ==
    ISqrt((METERS_PER_LAT_UNIT * (lat2 - lat1)) * (METERS_PER_LAT_UNIT * (lat2 - lat1))
          + (METERS_PER_LON_UNIT * (lon2 - lon1)) * (METERS_PER_LON_UNIT * (lon2 - lon1)))

\* Distance in raw coordinate units; a point is <<lon, lat>>.
_euclidean_distance(coord1, coord2) ==
    ISqrt((coord1[1] - coord2[1]) * (coord1[1] - coord2[1])
          + (coord1[2] - coord2[2]) * (coord1[2] - coord2[2]))

\* An edge of length zero is projected onto its end: t = 1.
MutZeroEdgeAtEnd(px, py, ax, ay, bx, by) ==
    LET dx == bx - ax
        dy == by - ay
    IN  IF dx = 0 /\ dy = 0
        THEN [dist |-> haversine_distance(py, px, ay, ax),
              nearest_lon |-> ax, nearest_lat |-> ay,
              t |-> [num |-> 1, den |-> 1]]
        ELSE LET raw == (px - ax) * dx + (py - ay) * dy
                 den == dx * dx + dy * dy
                 num == Max2(0, Min2(den, raw))
                 nearest_lon == ax + (num * dx) \div den
                 nearest_lat == ay + (num * dy) \div den
             IN  [dist |-> haversine_distance(py, px, nearest_lat, nearest_lon),
                  nearest_lon |-> nearest_lon, nearest_lat |-> nearest_lat,
                  t |-> [num |-> num, den |-> den]]

\* (distance_m, nearest_lon, nearest_lat, t) as a record; t is the fraction
\* t.num / t.den, already clamped to [0, 1].
point_to_segment_distance(px, py, ax, ay, bx, by) ==
    LET dx == bx - ax
        dy == by - ay
    IN  IF dx = 0 /\ dy = 0
        THEN [dist |-> haversine_distance(py, px, ay, ax),
              nearest_lon |-> ax, nearest_lat |-> ay,
              t |-> [num |-> 0, den |-> 1]]
        ELSE LET raw == (px - ax) * dx + (py - ay) * dy
                 den == dx * dx + dy * dy
                 num == Max2(0, Min2(den, raw))
                 nearest_lon == ax + (num * dx) \div den
                 nearest_lat == ay + (num * dy) \div den
             IN  [dist |-> haversine_distance(py, px, nearest_lat, nearest_lon),
                  nearest_lon |-> nearest_lon, nearest_lat |-> nearest_lat,
                  t |-> [num |-> num, den |-> den]]

-----------------------------------------------------------------------------
(* Results of the functions that may return None or raise.  A result is a  *)
(* record whose kind is "ok" (with the value's fields), "none" (the        *)
(* function returned None) or "raise" (an exception left the function).    *)

ReturnsNone == [kind |-> "none"]

Raises == [kind |-> "raise"]

-----------------------------------------------------------------------------
(* Track geometry resolver.  A cache (data_cache.DataCache) is a record    *)
(* with track_points (a list of <<lon, lat>>), station_track_indices and   *)
(* station_positions (dicts, here functions on the ids they hold).         *)

_get_station_coord(station_id, cache) ==
    IF station_id = NoneVal THEN ReturnsNone
    ELSE IF station_id \notin DOMAIN cache.station_positions THEN ReturnsNone
    ELSE [kind |-> "ok",
          lon |-> cache.station_positions[station_id][1],
          lat |-> cache.station_positions[station_id][2]]

\* The outer path across the seam stops at the end of the list.
MutPathOuterNoWrap(start_idx, end_idx, direction, track_points) ==
    IF direction = "OuterLoop"
    THEN IF start_idx <= end_idx
         THEN Slice(track_points, start_idx, end_idx + 1)
         ELSE Slice(track_points, start_idx, Len(track_points))
    ELSE IF start_idx >= end_idx
         THEN IF end_idx = 0
              THEN SliceDown(track_points, start_idx, 0)
              ELSE SliceDown(track_points, start_idx, end_idx)
         ELSE LET p1 == SliceDown(track_points, start_idx, 0)
                  p2 == IF end_idx > 0
                        THEN SliceDown(track_points, Len(track_points) - 1, end_idx)
                        ELSE Reverse(track_points)
              IN  p1 \o p2

\* The inner path across the seam walks up from the start instead of down.
MutPathInnerUpward(start_idx, end_idx, direction, track_points) ==
    IF direction = "OuterLoop"
    THEN IF start_idx <= end_idx
         THEN Slice(track_points, start_idx, end_idx + 1)
         ELSE Slice(track_points, start_idx, Len(track_points))
                \o Slice(track_points, 0, end_idx + 1)
    ELSE IF start_idx >= end_idx
         THEN IF end_idx = 0
              THEN SliceDown(track_points, start_idx, 0)
              ELSE SliceDown(track_points, start_idx, end_idx)
         ELSE Slice(track_points, start_idx, end_idx + 1)

_get_path_points(start_idx, end_idx, direction, track_points) ==
    IF direction = "OuterLoop"
    THEN IF start_idx <= end_idx
         THEN Slice(track_points, start_idx, end_idx + 1)
         ELSE Slice(track_points, start_idx, Len(track_points))
                \o Slice(track_points, 0, end_idx + 1)
    ELSE IF start_idx >= end_idx
         THEN IF end_idx = 0
              THEN SliceDown(track_points, start_idx, 0)
              ELSE SliceDown(track_points, start_idx, end_idx)
         ELSE LET p1 == SliceDown(track_points, start_idx, 0)
                  p2 == IF end_idx > 0
                        THEN SliceDown(track_points, Len(track_points) - 1, end_idx)
                        ELSE Reverse(track_points)
              IN  p1 \o p2

\* Across the seam the two inner slices are reversed one by one and not as
\* a whole.
MutSegmentSeamNotReversed(from_station_id, to_station_id, direction, cache) ==
    IF \/ from_station_id \notin DOMAIN cache.station_track_indices
       \/ to_station_id \notin DOMAIN cache.station_track_indices
    THEN << >>
    ELSE IF cache.track_points = << >> THEN << >>
    ELSE LET from_idx == cache.station_track_indices[from_station_id]
             to_idx == cache.station_track_indices[to_station_id]
             total_points == Len(cache.track_points)
             coords ==
                 IF direction = "OuterLoop"
                 THEN IF from_idx <= to_idx
                      THEN Slice(cache.track_points, from_idx, to_idx + 1)
                      ELSE Slice(cache.track_points, from_idx, total_points)
                             \o Slice(cache.track_points, 0, to_idx + 1)
                 ELSE IF from_idx >= to_idx
                      THEN Reverse(Slice(cache.track_points, to_idx, from_idx + 1))
                      ELSE Reverse(Slice(cache.track_points, to_idx, total_points))
                             \o Reverse(Slice(cache.track_points, 0, from_idx + 1))
         IN  [i \in 1..Len(coords) |-> <<coords[i][1], coords[i][2]>>]

\* The list of [lon, lat] copies, or << >> for None: every caller tests the
\* result with "not segment_coords", which None and [] both satisfy.
get_segment_coords(from_station_id, to_station_id, direction, cache) ==
    IF \/ from_station_id \notin DOMAIN cache.station_track_indices
       \/ to_station_id \notin DOMAIN cache.station_track_indices
    THEN << >>
    ELSE IF cache.track_points = << >> THEN << >>
    ELSE LET from_idx == cache.station_track_indices[from_station_id]
             to_idx == cache.station_track_indices[to_station_id]
             total_points == Len(cache.track_points)
             coords ==
                 IF direction = "OuterLoop"
                 THEN IF from_idx <= to_idx
                      THEN Slice(cache.track_points, from_idx, to_idx + 1)
                      ELSE Slice(cache.track_points, from_idx, total_points)
                             \o Slice(cache.track_points, 0, to_idx + 1)
                 ELSE IF from_idx >= to_idx
                      THEN Reverse(Slice(cache.track_points, to_idx, from_idx + 1))
                      ELSE Reverse(Slice(cache.track_points, to_idx, total_points)
                                     \o Slice(cache.track_points, 0, from_idx + 1))
         IN  [i \in 1..Len(coords) |-> <<coords[i][1], coords[i][2]>>]

-----------------------------------------------------------------------------
(* Position synthesizer: the point of a path at a progress.                *)

\* sum of distances[0 .. k-1], the Euclidean lengths of the first k edges
RECURSIVE PathLengthUpTo(_, _)
PathLengthUpTo(path, k) ==
    IF k = 0 THEN 0
    ELSE PathLengthUpTo(path, k - 1) + _euclidean_distance(path[k], path[k + 1])

\* The loop "for i, d in enumerate(distances)" from edge i (1-based) on;
\* target is progress * total_distance, kept multiplied by PROGRESS_ONE.
RECURSIVE WalkPath(_, _, _)
WalkPath(path, target, i) ==
    IF i > Len(path) - 1 THEN path[Len(path)]
    ELSE LET cumulative == PathLengthUpTo(path, i - 1)
             d == _euclidean_distance(path[i], path[i + 1])
         IN  IF (cumulative + d) * PROGRESS_ONE >= target
             THEN IF d = 0 THEN path[i]
                  ELSE LET local_num == target - cumulative * PROGRESS_ONE
                           local_den == d * PROGRESS_ONE
                       IN  << path[i][1]
                                + (local_num * (path[i + 1][1] - path[i][1])) \div local_den,
                              path[i][2]
                                + (local_num * (path[i + 1][2] - path[i][2])) \div local_den >>
             ELSE WalkPath(path, target, i + 1)

\* A point <<lon, lat>>, or Raises when progress is None and is compared.
_get_point_on_path(path, progress) ==
    IF path = << >> THEN [kind |-> "ok", lon |-> 0, lat |-> 0]
    ELSE IF Len(path) < 2 THEN [kind |-> "ok", lon |-> path[1][1], lat |-> path[1][2]]
    ELSE IF progress = NoneNum THEN Raises
    ELSE IF progress <= 0 THEN [kind |-> "ok", lon |-> path[1][1], lat |-> path[1][2]]
    ELSE IF progress >= PROGRESS_ONE
         THEN [kind |-> "ok", lon |-> path[Len(path)][1], lat |-> path[Len(path)][2]]
    ELSE LET total_distance == PathLengthUpTo(path, Len(path) - 1)
         IN  IF total_distance = 0
             THEN [kind |-> "ok", lon |-> path[1][1], lat |-> path[1][2]]
             ELSE LET pt == WalkPath(path, progress * total_distance, 1)
                  IN  [kind |-> "ok", lon |-> pt[1], lat |-> pt[2]]

_interpolate_coords(from_station_id, to_station_id, progress, direction, cache) ==
    IF from_station_id = NoneVal \/ to_station_id = NoneVal THEN ReturnsNone
    ELSE IF \/ cache.track_points = << >>
            \/ from_station_id \notin DOMAIN cache.station_track_indices
            \/ to_station_id \notin DOMAIN cache.station_track_indices
         THEN LET start == _get_station_coord(from_station_id, cache)
                  end == _get_station_coord(to_station_id, cache)
              IN  IF start.kind = "none" \/ end.kind = "none" THEN ReturnsNone
                  ELSE IF progress = NoneNum THEN Raises
                  ELSE LET clamped == Clamp01(progress)
                       IN  [kind |-> "ok",
                            lon |-> start.lon
                                      + ((end.lon - start.lon) * clamped) \div PROGRESS_ONE,
                            lat |-> start.lat
                                      + ((end.lat - start.lat) * clamped) \div PROGRESS_ONE]
         ELSE LET start_idx == cache.station_track_indices[from_station_id]
                  end_idx == cache.station_track_indices[to_station_id]
                  path == _get_path_points(start_idx, end_idx, direction, cache.track_points)
              IN  _get_point_on_path(path, progress)

-----------------------------------------------------------------------------
(* Progress estimator.                                                     *)

\* float('inf')
INFINITE_DISTANCE == 1000000000

\* cumulative_distances[k] (0-based k): the haversine length of the first k
\* edges of the list.
RECURSIVE cumulative_distances(_, _)
cumulative_distances(segment_coords, k) ==
    IF k = 0 THEN 0
    ELSE cumulative_distances(segment_coords, k - 1)
           + haversine_distance(segment_coords[k][2], segment_coords[k][1],
                                segment_coords[k + 1][2], segment_coords[k + 1][1])

\* "if dist < min_dist": the best fit after sub-segment i (1-based), whose
\* projection is r, given the best fit before it.
BetterSubSegment(i, r, best) ==
    IF r.dist < best.min_dist
    THEN [min_dist |-> r.dist, best_segment_idx |-> i - 1, best_t |-> r.t,
          best_nearest_lon |-> r.nearest_lon, best_nearest_lat |-> r.nearest_lat]
    ELSE best

\* The loop over the sub-segments from sub-segment i (1-based) on, with the
\* best fit found so far.
RECURSIVE BestSubSegment(_, _, _, _, _)
BestSubSegment(segment_coords, target_lat, target_lon, i, best) ==
    IF i > Len(segment_coords) - 1 THEN best
    ELSE BestSubSegment(segment_coords, target_lat, target_lon, i + 1,
             BetterSubSegment(i,
                 point_to_segment_distance(
                     target_lon, target_lat,
                     segment_coords[i][1], segment_coords[i][2],
                     segment_coords[i + 1][1], segment_coords[i + 1][2]),
                 best))

\* A fit at exactly max_distance_m is rejected.
MutThresholdExclusive(segment_coords, max_distance_m, total_length, best) ==
    IF best.min_dist >= max_distance_m THEN ReturnsNone
    ELSE LET segment_start_dist ==
                 cumulative_distances(segment_coords, best.best_segment_idx)
             segment_length ==
                 cumulative_distances(segment_coords, best.best_segment_idx + 1)
                   - cumulative_distances(segment_coords, best.best_segment_idx)
             \* (segment_start_dist + best_t * segment_length) / total_length
             progress ==
                 (PROGRESS_ONE * (segment_start_dist * best.best_t.den
                                    + best.best_t.num * segment_length))
                   \div (best.best_t.den * total_length)
         IN  [kind |-> "ok",
              progress |-> Clamp01(progress),
              distance_m |-> best.min_dist,
              lon |-> best.best_nearest_lon,
              lat |-> best.best_nearest_lat]

\* The progress is that within the best sub-segment: the length before it
\* is left out.
MutProgressWithoutStart(segment_coords, max_distance_m, total_length, best) ==
    IF best.min_dist > max_distance_m THEN ReturnsNone
    ELSE LET segment_start_dist ==
                 cumulative_distances(segment_coords, best.best_segment_idx)
             segment_length ==
                 cumulative_distances(segment_coords, best.best_segment_idx + 1)
                   - cumulative_distances(segment_coords, best.best_segment_idx)
             \* (segment_start_dist + best_t * segment_length) / total_length
             progress ==
                 (PROGRESS_ONE * (best.best_t.num * segment_length))
                   \div (best.best_t.den * total_length)
         IN  [kind |-> "ok",
              progress |-> Clamp01(progress),
              distance_m |-> best.min_dist,
              lon |-> best.best_nearest_lon,
              lat |-> best.best_nearest_lat]

\* The estimator after its loop: the threshold and the progress of the
\* best sub-segment.
ProgressOfBest(segment_coords, max_distance_m, total_length, best) ==
    IF best.min_dist > max_distance_m THEN ReturnsNone
    ELSE LET segment_start_dist ==
                 cumulative_distances(segment_coords, best.best_segment_idx)
             segment_length ==
                 cumulative_distances(segment_coords, best.best_segment_idx + 1)
                   - cumulative_distances(segment_coords, best.best_segment_idx)
             \* (segment_start_dist + best_t * segment_length) / total_length
             progress ==
                 (PROGRESS_ONE * (segment_start_dist * best.best_t.den
                                    + best.best_t.num * segment_length))
                   \div (best.best_t.den * total_length)
         IN  [kind |-> "ok",
              progress |-> Clamp01(progress),
              distance_m |-> best.min_dist,
              lon |-> best.best_nearest_lon,
              lat |-> best.best_nearest_lat]

\* The estimator once total_length is known.
EstimateWithLength(segment_coords, target_lat, target_lon, max_distance_m, total_length) ==
    IF total_length < 1 THEN ReturnsNone
    ELSE IF target_lat = NoneNum \/ target_lon = NoneNum THEN Raises
    ELSE ProgressOfBest(segment_coords, max_distance_m, total_length,
             BestSubSegment(segment_coords, target_lat, target_lon, 1,
                 [min_dist |-> INFINITE_DISTANCE, best_segment_idx |-> 0,
                  best_t |-> [num |-> 0, den |-> 1],
                  best_nearest_lon |-> segment_coords[1][1],
                  best_nearest_lat |-> segment_coords[1][2]]))

\* A record with progress, distance_m, lon and lat, ReturnsNone, or Raises
\* when the target has no latitude or longitude.
estimate_segment_progress_extended(segment_coords, target_lat, target_lon, max_distance_m) ==
    IF segment_coords = << >> \/ Len(segment_coords) < 2 THEN ReturnsNone
    ELSE EstimateWithLength(segment_coords, target_lat, target_lon, max_distance_m,
             cumulative_distances(segment_coords, Len(segment_coords) - 1))

\* The estimator without distance: the same steps, returning the progress
\* alone, ReturnsNone or Raises.
estimate_segment_progress(segment_coords, target_lat, target_lon, max_distance_m) ==
    IF segment_coords = << >> \/ Len(segment_coords) < 2 THEN ReturnsNone
    ELSE LET r == EstimateWithLength(segment_coords, target_lat, target_lon, max_distance_m,
                      cumulative_distances(segment_coords, Len(segment_coords) - 1))
         IN  IF r.kind = "ok" THEN [kind |-> "ok", progress |-> r.progress] ELSE r

-----------------------------------------------------------------------------
(* Neighbor search: the candidate segments.                                *)

\* The next candidate is listed before the previous one.
MutAdjacentOrder(from_station_id, to_station_id, direction) ==
    IF \/ from_station_id \notin DOMAIN YAMANOTE_STATION_INDEX
       \/ to_station_id \notin DOMAIN YAMANOTE_STATION_INDEX
    THEN << <<from_station_id, to_station_id>> >>
    ELSE LET from_idx == YAMANOTE_STATION_INDEX[from_station_id]
             to_idx == YAMANOTE_STATION_INDEX[to_station_id]
             step == IF direction = "OuterLoop" THEN 1 ELSE -1
         IN  << <<from_station_id, to_station_id>>,
                <<to_station_id, station_at((to_idx + step) % NUM_YAMANOTE_STATIONS)>>,
                <<station_at((from_idx - step) % NUM_YAMANOTE_STATIONS), from_station_id>> >>

\* Neighbors are added as soon as one of the two stations is known.
MutAdjacentUnknown(from_station_id, to_station_id, direction) ==
    LET known(s) == s \in DOMAIN YAMANOTE_STATION_INDEX
        step == IF direction = "OuterLoop" THEN 1 ELSE -1
        prev == IF known(from_station_id)
                THEN << <<station_at((YAMANOTE_STATION_INDEX[from_station_id] - step)
                                        % NUM_YAMANOTE_STATIONS), from_station_id>> >>
                ELSE << >>
        next == IF known(to_station_id)
                THEN << <<to_station_id,
                          station_at((YAMANOTE_STATION_INDEX[to_station_id] + step)
                                        % NUM_YAMANOTE_STATIONS)>> >>
                ELSE << >>
    IN  << <<from_station_id, to_station_id>> >> \o prev \o next

get_adjacent_segments(from_station_id, to_station_id, direction) ==
    IF \/ from_station_id \notin DOMAIN YAMANOTE_STATION_INDEX
       \/ to_station_id \notin DOMAIN YAMANOTE_STATION_INDEX
    THEN << <<from_station_id, to_station_id>> >>
    ELSE LET from_idx == YAMANOTE_STATION_INDEX[from_station_id]
             to_idx == YAMANOTE_STATION_INDEX[to_station_id]
         IN  IF direction = "OuterLoop"
             THEN LET prev_from_idx == (from_idx - 1) % NUM_YAMANOTE_STATIONS
                      prev_from == station_at(prev_from_idx)
                      prev_to == from_station_id
                      next_from == to_station_id
                      next_to_idx == (to_idx + 1) % NUM_YAMANOTE_STATIONS
                      next_to == station_at(next_to_idx)
                  IN  << <<from_station_id, to_station_id>>,
                         <<prev_from, prev_to>>,
                         <<next_from, next_to>> >>
             ELSE LET prev_from_idx == (from_idx + 1) % NUM_YAMANOTE_STATIONS
                      prev_from == station_at(prev_from_idx)
                      prev_to == from_station_id
                      next_from == to_station_id
                      next_to_idx == (to_idx - 1) % NUM_YAMANOTE_STATIONS
                      next_to == station_at(next_to_idx)
                  IN  << <<from_station_id, to_station_id>>,
                         <<prev_from, prev_to>>,
                         <<next_from, next_to>> >>

-----------------------------------------------------------------------------
(* Neighbor search: the best fitting candidate.                            *)

\* A candidate without polyline is not skipped: the search raises.
MutMissingGeometryRaises(segment_coords, gtfs_lat, gtfs_lon, max_distance_m) ==
    IF segment_coords = << >> \/ Len(segment_coords) < 2 THEN Raises
    ELSE estimate_segment_progress_extended(segment_coords, gtfs_lat, gtfs_lon,
                                            max_distance_m)

\* One candidate: the estimate on its polyline; ReturnsNone also when the
\* candidate is skipped for want of a polyline ("continue").
CandidateFit(segment_coords, gtfs_lat, gtfs_lon, max_distance_m) ==
    IF segment_coords = << >> \/ Len(segment_coords) < 2 THEN ReturnsNone
    ELSE estimate_segment_progress_extended(segment_coords, gtfs_lat, gtfs_lon,
                                            max_distance_m)

\* The distances are not compared: the last candidate that did not reject
\* wins.
MutLastCandidateWins(idx, segment, result, best_result) ==
    IF result.kind = "ok"
    THEN [kind |-> "ok",
          segment |-> <<segment[1], segment[2]>>,
          progress |-> result.progress,
          distance_m |-> result.distance_m,
          lon |-> result.lon,
          lat |-> result.lat,
          is_neighbor |-> (idx > 0)]
    ELSE best_result

\* "<=" for "<": of two candidates at the same distance the later wins.
MutLaterCandidateWinsTie(idx, segment, result, best_result) ==
    IF /\ result.kind = "ok"
       /\ result.distance_m <= (IF best_result.kind = "ok" THEN best_result.distance_m
                                                           ELSE INFINITE_DISTANCE)
    THEN [kind |-> "ok",
          segment |-> <<segment[1], segment[2]>>,
          progress |-> result.progress,
          distance_m |-> result.distance_m,
          lon |-> result.lon,
          lat |-> result.lat,
          is_neighbor |-> (idx > 0)]
    ELSE best_result

\* "if result is not None and result['distance_m'] < best_distance": the
\* best result after candidate idx (0-based), whose estimate is result.
\* best_distance is best_result's distance_m, float('inf') while
\* best_result is None.
BetterCandidate(idx, segment, result, best_result) ==
    IF /\ result.kind = "ok"
       /\ result.distance_m < (IF best_result.kind = "ok" THEN best_result.distance_m
                                                          ELSE INFINITE_DISTANCE)
    THEN [kind |-> "ok",
          segment |-> <<segment[1], segment[2]>>,
          progress |-> result.progress,
          distance_m |-> result.distance_m,
          lon |-> result.lon,
          lat |-> result.lat,
          is_neighbor |-> (idx > 0)]
    ELSE best_result

\* The loop "for idx, (seg_from, seg_to) in enumerate(segments_to_search)"
\* from candidate idx (0-based) on; best_result is the best fit so far.  An
\* exception of the estimator ends the loop and the function.
RECURSIVE SearchSegments(_, _, _, _, _, _, _, _)
SearchNext(segments_to_search, idx, gtfs_lat, gtfs_lon, direction, cache, max_distance_m, best_result, result) ==
    IF result.kind = "raise" THEN Raises
    ELSE SearchSegments(segments_to_search, idx + 1, gtfs_lat, gtfs_lon, direction, cache,
             max_distance_m,
             BetterCandidate(idx, segments_to_search[idx + 1], result, best_result))

SearchSegments(segments_to_search, idx, gtfs_lat, gtfs_lon, direction, cache, max_distance_m, best_result) ==
    IF idx >= Len(segments_to_search) THEN best_result
    ELSE SearchNext(segments_to_search, idx, gtfs_lat, gtfs_lon, direction, cache,
             max_distance_m, best_result,
             CandidateFit(get_segment_coords(segments_to_search[idx + 1][1],
                                             segments_to_search[idx + 1][2],
                                             direction, cache),
                          gtfs_lat, gtfs_lon, max_distance_m))

find_train_on_segments(gtfs_lat, gtfs_lon, from_station_id, to_station_id, direction, cache, max_distance_m) ==
    SearchSegments(get_adjacent_segments(from_station_id, to_station_id, direction),
                   0, gtfs_lat, gtfs_lon, direction, cache, max_distance_m, ReturnsNone)

-----------------------------------------------------------------------------
(* Progress blender: train_state.blend_progress.  The staleness policy:    *)
(* fresh reports replace the schedule progress, stale ones are blended     *)
(* linearly, older ones are ignored.                                       *)

FRESH_THRESHOLD == 30

STALE_THRESHOLD == 120

\* (blended_progress, data_quality) as a record, or Raises when the blend
\* has to compute with a schedule progress that is None.
blend_progress(schedule_progress, rt_progress, staleness_sec) ==
    IF staleness_sec <= FRESH_THRESHOLD
    THEN [kind |-> "ok", blended |-> rt_progress, quality |-> "good"]
    ELSE IF staleness_sec <= STALE_THRESHOLD
    THEN IF schedule_progress = NoneNum THEN Raises
         ELSE \* w = 1 - (staleness - FRESH) / (STALE - FRESH)
              LET w_num == (STALE_THRESHOLD - FRESH_THRESHOLD)
                             - (staleness_sec - FRESH_THRESHOLD)
                  w_den == STALE_THRESHOLD - FRESH_THRESHOLD
              IN  [kind |-> "ok",
                   blended |-> (w_num * rt_progress + (w_den - w_num) * schedule_progress)
                                 \div w_den,
                   quality |-> "stale"]
    ELSE [kind |-> "ok", blended |-> schedule_progress, quality |-> "timetable_only"]

-----------------------------------------------------------------------------
(* Position records.  A schedule state (train_state.TrainSectionState) is  *)
(* a record with number and direction (its train), is_stopped,             *)
(* stopped_at_station_id, from_station_id, to_station_id and progress.  A  *)
(* report (gtfs_rt_vehicle.YamanoteTrainPosition) has train_number,        *)
(* latitude, longitude, stop_sequence, status and timestamp.               *)

\* TrainPosition(...) with the fields the engine computes.
TrainPosition(state, is_stopped, station_id, from_station_id, to_station_id, progress, lon, lat, data_quality, gtfs_stop_sequence, gtfs_status, timetable_coords, gtfs_coords) ==
    [number |-> state.number,
     direction |-> state.direction,
     is_stopped |-> is_stopped,
     station_id |-> station_id,
     from_station_id |-> from_station_id,
     to_station_id |-> to_station_id,
     progress |-> progress,
     lon |-> lon,
     lat |-> lat,
     data_quality |-> data_quality,
     gtfs_stop_sequence |-> gtfs_stop_sequence,
     gtfs_status |-> gtfs_status,
     timetable_lat |-> timetable_coords[1],
     timetable_lon |-> timetable_coords[2],
     gtfs_lat |-> gtfs_coords[1],
     gtfs_lon |-> gtfs_coords[2]]

\* timetable_coords / gtfs_coords when they are None
NoCoords == <<NoneNum, NoneNum>>

\* The from station is preferred to the station the train is stopped at.
MutStoppedStationFromFirst(state) ==
    IF state.from_station_id # NoneVal
    THEN state.from_station_id
    ELSE state.stopped_at_station_id

\* state.stopped_at_station_id or state.from_station_id
StoppedStationId(state) ==
    IF state.stopped_at_station_id # NoneVal
    THEN state.stopped_at_station_id
    ELSE state.from_station_id

\* The position of one schedule state from the timetable alone: a record
\* with kind "ok" and pos, ReturnsNone or Raises.
train_state_to_position(state, cache) ==
    IF state.is_stopped
    THEN LET station_id == StoppedStationId(state)
             coord == _get_station_coord(station_id, cache)
         IN  IF coord.kind = "none" THEN ReturnsNone
             ELSE [kind |-> "ok",
                   pos |-> TrainPosition(state, TRUE, station_id, NoneVal, NoneVal, 0,
                                         coord.lon, coord.lat, "timetable_only",
                                         NoneNum, NoneNum, NoCoords, NoCoords)]
    ELSE LET from_id == state.from_station_id
             to_id == state.to_station_id
             coords == _interpolate_coords(from_id, to_id, state.progress,
                                           state.direction, cache)
         IN  IF coords.kind = "raise" THEN Raises
             ELSE IF coords.kind = "none" THEN ReturnsNone
             ELSE [kind |-> "ok",
                   pos |-> TrainPosition(state, FALSE, NoneVal, from_id, to_id,
                                         state.progress, coords.lon, coords.lat,
                                         "timetable_only", NoneNum, NoneNum,
                                         NoCoords, NoCoords)]

\* gtfs_info is ReturnsNone or a record with stop_sequence and status;
\* override_progress is NoneNum when it is None.
train_state_to_position_with_override(state, cache, override_progress, data_quality, gtfs_info, override_from_station, override_to_station, timetable_coords, gtfs_coords) ==
    LET stop_seq == IF gtfs_info.kind = "ok" THEN gtfs_info.stop_sequence ELSE NoneNum
        status == IF gtfs_info.kind = "ok" THEN gtfs_info.status ELSE NoneNum
    IN  IF state.is_stopped
        THEN LET station_id == StoppedStationId(state)
                 coord == _get_station_coord(station_id, cache)
             IN  IF coord.kind = "none" THEN ReturnsNone
                 ELSE [kind |-> "ok",
                       pos |-> TrainPosition(state, TRUE, station_id, NoneVal, NoneVal, 0,
                                             coord.lon, coord.lat, data_quality,
                                             stop_seq, status, timetable_coords, gtfs_coords)]
        ELSE LET from_id == IF override_from_station # NoneVal
                            THEN override_from_station ELSE state.from_station_id
                 to_id == IF override_to_station # NoneVal
                          THEN override_to_station ELSE state.to_station_id
                 progress == IF override_progress # NoneNum
                             THEN override_progress ELSE state.progress
                 coords == _interpolate_coords(from_id, to_id, progress,
                                               state.direction, cache)
             IN  IF coords.kind = "raise" THEN Raises
                 ELSE IF coords.kind = "none" THEN ReturnsNone
                 ELSE [kind |-> "ok",
                       pos |-> TrainPosition(state, FALSE, NoneVal, from_id, to_id, progress,
                                             coords.lon, coords.lat, data_quality,
                                             stop_seq, status, timetable_coords, gtfs_coords)]

-----------------------------------------------------------------------------
(* get_blended_train_positions: one turn of "for state in states".         *)

MAX_DISTANCE_M == 500

\* A train without report of its own is given the report of another train.
MutMatchAnyReport(state, gtfs_data) ==
    IF state.number \in DOMAIN gtfs_data
    THEN gtfs_data[state.number]
    ELSE IF DOMAIN gtfs_data # {}
    THEN gtfs_data[CHOOSE n \in DOMAIN gtfs_data : TRUE]
    ELSE ReturnsNone

\* Step 2: gtfs_data[state.train.number], or ReturnsNone.  gtfs_data is a
\* function on the train numbers it has a report for (None and {} are the
\* function on no number).
MatchReport(state, gtfs_data) ==
    IF state.number \in DOMAIN gtfs_data
    THEN gtfs_data[state.number]
    ELSE ReturnsNone

\* The locals of step 3 before the try block; neighbor_found is 1 when the
\* turn adds one to neighbor_found_count.
InitialLocals(state) ==
    [blended_progress |-> state.progress,
     data_quality |-> "timetable_only",
     final_from_station |-> state.from_station_id,
     final_to_station |-> state.to_station_id,
     neighbor_found |-> 0,
     search_result |-> ReturnsNone]

\* "if search_result['is_neighbor']": the segment becomes the winner's.
FoundLocals(state, search_result) ==
    IF search_result.is_neighbor
    THEN [InitialLocals(state) EXCEPT
            !.neighbor_found = 1,
            !.final_from_station = search_result.segment[1],
            !.final_to_station = search_result.segment[2],
            !.search_result = search_result]
    ELSE [InitialLocals(state) EXCEPT !.search_result = search_result]

\* The blended progress is dropped: only the quality is taken.
MutAfterBlendKeepsSchedule(found, blend) ==
    IF blend.kind = "raise"
    THEN [found EXCEPT !.data_quality = "error"]
    ELSE [found EXCEPT !.data_quality = blend.quality]

\* "blended_progress, data_quality = blend_progress(...)": nothing is
\* assigned when the call raises.
AfterBlend(found, blend) ==
    IF blend.kind = "raise"
    THEN [found EXCEPT !.data_quality = "error"]
    ELSE [found EXCEPT !.blended_progress = blend.blended,
                       !.data_quality = blend.quality]

\* The else branch "data_quality = 'rejected'" is missing.
MutAfterSearchNoReject(state, gtfs_position, current_time, search_result) ==
    IF search_result.kind = "raise"
    THEN [InitialLocals(state) EXCEPT !.data_quality = "error", !.search_result = Raises]
    ELSE IF search_result.kind = "none"
    THEN InitialLocals(state)
    ELSE IF gtfs_position.timestamp = NoneNum
    THEN [FoundLocals(state, search_result) EXCEPT !.data_quality = "error"]
    ELSE AfterBlend(FoundLocals(state, search_result),
                    blend_progress(state.progress, search_result.progress,
                                   current_time - gtfs_position.timestamp))

\* The two progresses are passed to blend_progress in the wrong order.
MutAfterSearchSwapped(state, gtfs_position, current_time, search_result) ==
    IF search_result.kind = "raise"
    THEN [InitialLocals(state) EXCEPT !.data_quality = "error", !.search_result = Raises]
    ELSE IF search_result.kind = "none"
    THEN [InitialLocals(state) EXCEPT !.data_quality = "rejected"]
    ELSE IF gtfs_position.timestamp = NoneNum
    THEN [FoundLocals(state, search_result) EXCEPT !.data_quality = "error"]
    ELSE AfterBlend(FoundLocals(state, search_result),
                    blend_progress(search_result.progress, state.progress,
                                   current_time - gtfs_position.timestamp))

\* The staleness is computed with the wrong sign.
MutAfterSearchStalenessSign(state, gtfs_position, current_time, search_result) ==
    IF search_result.kind = "raise"
    THEN [InitialLocals(state) EXCEPT !.data_quality = "error", !.search_result = Raises]
    ELSE IF search_result.kind = "none"
    THEN [InitialLocals(state) EXCEPT !.data_quality = "rejected"]
    ELSE IF gtfs_position.timestamp = NoneNum
    THEN [FoundLocals(state, search_result) EXCEPT !.data_quality = "error"]
    ELSE AfterBlend(FoundLocals(state, search_result),
                    blend_progress(state.progress, search_result.progress,
                                   gtfs_position.timestamp - current_time))

\* blended_progress is set to the real-time progress before the staleness
\* is computed, so it survives an exception.
MutAfterSearchEarlyAssign(state, gtfs_position, current_time, search_result) ==
    IF search_result.kind = "raise"
    THEN [InitialLocals(state) EXCEPT !.data_quality = "error", !.search_result = Raises]
    ELSE IF search_result.kind = "none"
    THEN [InitialLocals(state) EXCEPT !.data_quality = "rejected"]
    ELSE IF gtfs_position.timestamp = NoneNum
    THEN [FoundLocals(state, search_result) EXCEPT
             !.data_quality = "error", !.blended_progress = search_result.progress]
    ELSE AfterBlend([FoundLocals(state, search_result) EXCEPT
                        !.blended_progress = search_result.progress],
                    blend_progress(state.progress, search_result.progress,
                                   current_time - gtfs_position.timestamp))

\* The try block from the result of the neighbor search on.
AfterSearch(state, gtfs_position, current_time, search_result) ==
    IF search_result.kind = "raise"
    THEN [InitialLocals(state) EXCEPT !.data_quality = "error", !.search_result = Raises]
    ELSE IF search_result.kind = "none"
    THEN [InitialLocals(state) EXCEPT !.data_quality = "rejected"]
    ELSE IF gtfs_position.timestamp = NoneNum
    THEN \* current_time.timestamp() - None raises
         [FoundLocals(state, search_result) EXCEPT !.data_quality = "error"]
    ELSE AfterBlend(FoundLocals(state, search_result),
                    blend_progress(state.progress, search_result.progress,
                                   current_time - gtfs_position.timestamp))

\* The report of a stopped train is projected and blended as well.
MutBlendStepAlsoStopped(state, gtfs_position, current_time, cache) ==
    IF gtfs_position.kind = "none" THEN InitialLocals(state)
    ELSE AfterSearch(state, gtfs_position, current_time,
             find_train_on_segments(
                 gtfs_position.latitude, gtfs_position.longitude,
                 state.from_station_id, state.to_station_id,
                 state.direction, cache, MAX_DISTANCE_M))

\* Step 3: the locals blended_progress, data_quality, final_from_station
\* and final_to_station after the try block.
BlendStep(state, gtfs_position, current_time, cache) ==
    IF state.is_stopped \/ gtfs_position.kind = "none" THEN InitialLocals(state)
    ELSE AfterSearch(state, gtfs_position, current_time,
             find_train_on_segments(
                 gtfs_position.latitude, gtfs_position.longitude,
                 state.from_station_id, state.to_station_id,
                 state.direction, cache, MAX_DISTANCE_M))

\* Step 4: the comparison coordinate (lat, lon) of the pure timetable
\* position: a record with kind "ok" and coords (NoCoords for None), or
\* Raises.
TimetableCoords(state, cache) ==
    IF ~state.is_stopped
    THEN LET tt_coords == _interpolate_coords(state.from_station_id, state.to_station_id,
                                              state.progress, state.direction, cache)
         IN  IF tt_coords.kind = "raise" THEN Raises
             ELSE IF tt_coords.kind = "ok"
             THEN [kind |-> "ok", coords |-> <<tt_coords.lat, tt_coords.lon>>]
             ELSE [kind |-> "ok", coords |-> NoCoords]
    ELSE LET station_id == StoppedStationId(state)
             coord == _get_station_coord(station_id, cache)
         IN  IF coord.kind = "ok"
             THEN [kind |-> "ok", coords |-> <<coord.lat, coord.lon>>]
             ELSE [kind |-> "ok", coords |-> NoCoords]

\* gtfs_info and gtfs_coords of a turn.
GtfsInfo(gtfs_position) ==
    IF gtfs_position.kind = "ok"
    THEN [kind |-> "ok",
          stop_sequence |-> gtfs_position.stop_sequence,
          status |-> gtfs_position.status]
    ELSE ReturnsNone

GtfsCoords(gtfs_position) ==
    IF gtfs_position.kind = "ok"
    THEN <<gtfs_position.latitude, gtfs_position.longitude>>
    ELSE NoCoords

\* "if position: ... results.append(position)"
TurnOutcome(after_try, position) ==
    IF position.kind = "raise" THEN [kind |-> "raise", locals |-> after_try]
    ELSE IF position.kind = "none" THEN [kind |-> "none", locals |-> after_try]
    ELSE [kind |-> "ok", locals |-> after_try, pos |-> position.pos]

\* Steps 4 and 5, outside the try block.
SynthesizeTurn(state, cache, gtfs_position, after_try, timetable_coords) ==
    IF timetable_coords.kind = "raise"
    THEN [kind |-> "raise", locals |-> after_try]
    ELSE TurnOutcome(after_try,
             train_state_to_position_with_override(
                 state, cache, after_try.blended_progress, after_try.data_quality,
                 GtfsInfo(gtfs_position), after_try.final_from_station,
                 after_try.final_to_station, timetable_coords.coords,
                 GtfsCoords(gtfs_position)))

\* One whole turn of the loop: kind is "ok" (position appended), "none"
\* (position is None, nothing appended) or "raise" (an exception leaves the
\* loop and the function); locals are the locals of step 3.
BlendedTurn(state, gtfs_data, current_time, cache) ==
    SynthesizeTurn(state, cache, MatchReport(state, gtfs_data),
                   BlendStep(state, MatchReport(state, gtfs_data), current_time, cache),
                   TimetableCoords(state, cache))

-----------------------------------------------------------------------------
(* Inputs of the calls.                                                    *)

KnownStations == {YAMANOTE_STATION_ORDER[i] : i \in 1..Len(YAMANOTE_STATION_ORDER)}

UnknownStations == {"Unknown.Station.A", "Unknown.Station.B", NoneVal}

StationIds == KnownStations \cup UnknownStations

Directions == {"OuterLoop", "InnerLoop"}

-----------------------------------------------------------------------------
(* SpecAdj: get_adjacent_segments applied to every pair of station ids.    *)

\* ret while the call runs, and after it returned the value v.
Pending == [kind |-> "pending"]

Returned(v) == [kind |-> "ok", value |-> v]

\* The state of the batch functions before any of them is called.
NoStats == [good |-> 0, stale |-> 0, rejected |-> 0, timetable_only |-> 0, error |-> 0]

NoLocals == [kind |-> "idle"]

NoLog == [kind |-> "none"]

BatchIdle ==
    /\ done = 0
    /\ results = << >>
    /\ skipped = 0
    /\ blend_stats = NoStats
    /\ neighbor_found_count = 0
    /\ locals = NoLocals
    /\ log = NoLog
    /\ runs = << >>

batch_vars == <<done, results, skipped, blend_stats, neighbor_found_count, locals, log, runs>>

InitAdj ==
    /\ \E f \in StationIds, t \in StationIds, d \in Directions :
          call = [fn |-> "get_adjacent_segments", args |-> <<f, t, d>>]
    /\ ret = Pending
    /\ BatchIdle

CallGetAdjacentSegments ==
    /\ call.fn = "get_adjacent_segments"
    /\ ret = Pending
    /\ ret' = Returned(get_adjacent_segments(call.args[1], call.args[2], call.args[3]))
    /\ UNCHANGED <<call, batch_vars>>

NextAdj == CallGetAdjacentSegments

SpecAdj == InitAdj /\ [][NextAdj]_vars

-----------------------------------------------------------------------------
(* The data of a request: the cache.  The track is a closed loop of        *)
(* TRACK_VERTICES vertices, one every GRID_STEP coordinate units, round a  *)
(* rectangle TRACK_WIDTH steps wide and TRACK_HEIGHT steps high; station   *)
(* number k stands at vertex VERTICES_PER_STATION * k.                     *)

GRID_STEP == 20

TRACK_WIDTH == 19

TRACK_HEIGHT == 11

VERTICES_PER_STATION == 2

TRACK_VERTICES == 2 * (TRACK_WIDTH + TRACK_HEIGHT)

\* Vertex k (0-based) of the loop as <<lon, lat>>.
TrackVertex(k) ==
    IF k <= TRACK_WIDTH
    THEN <<GRID_STEP * k, 0>>
    ELSE IF k <= TRACK_WIDTH + TRACK_HEIGHT
    THEN <<GRID_STEP * TRACK_WIDTH, GRID_STEP * (k - TRACK_WIDTH)>>
    ELSE IF k <= 2 * TRACK_WIDTH + TRACK_HEIGHT
    THEN <<GRID_STEP * (2 * TRACK_WIDTH + TRACK_HEIGHT - k), GRID_STEP * TRACK_HEIGHT>>
    ELSE <<0, GRID_STEP * (TRACK_VERTICES - k)>>

FullTrack == [k \in 1..TRACK_VERTICES |-> TrackVertex(k - 1)]

\* Stations the geometry source does not know: the first has a coordinate
\* but no track index, the second has neither.
STATION_WITHOUT_INDEX == "JR-East.Yamanote.Tokyo"

STATION_WITHOUT_COORD == "JR-East.Yamanote.Yurakucho"

StationTrackIndices ==
    [s \in KnownStations \ {STATION_WITHOUT_INDEX, STATION_WITHOUT_COORD} |->
        VERTICES_PER_STATION * YAMANOTE_STATION_INDEX[s]]

StationPositions ==
    [s \in KnownStations \ {STATION_WITHOUT_COORD} |->
        TrackVertex(VERTICES_PER_STATION * YAMANOTE_STATION_INDEX[s])]

\* The cache as loaded, and a cache whose track file was missing.
CacheWithTrack ==
    [track_points |-> FullTrack,
     station_track_indices |-> StationTrackIndices,
     station_positions |-> StationPositions]

CacheWithoutTrack ==
    [track_points |-> << >>,
     station_track_indices |-> << >>,
     station_positions |-> StationPositions]

Caches == {CacheWithTrack, CacheWithoutTrack}

-----------------------------------------------------------------------------
(* The data of a request: the schedule states and the real-time reports.   *)

\* The most trains one request holds.
MaxTrains == 2

\* current_time.timestamp(), epoch seconds
NOW == 1000

\* The train number of the i-th schedule state of a request.
TrainNumber(i) == ToString(300 + i) \o "G"

MovingState(direction, from_station_id, to_station_id, progress) ==
    [direction |-> direction, is_stopped |-> FALSE, stopped_at_station_id |-> NoneVal,
     from_station_id |-> from_station_id, to_station_id |-> to_station_id,
     progress |-> progress]

StoppedState(direction, stopped_at_station_id, from_station_id) ==
    [direction |-> direction, is_stopped |-> TRUE,
     stopped_at_station_id |-> stopped_at_station_id,
     from_station_id |-> from_station_id, to_station_id |-> NoneVal,
     progress |-> 0]

\* Schedule progresses: 0.0, 0.25, 1.0, 1.5 (beyond the segment) and None
\* (a malformed record).
ScheduleProgresses == {0, PROGRESS_ONE \div 4, PROGRESS_ONE, (3 * PROGRESS_ONE) \div 2, NoneNum}

ScheduleStates ==
    {MovingState("OuterLoop", "JR-East.Yamanote.Shibuya", "JR-East.Yamanote.Harajuku", p) :
        p \in ScheduleProgresses}
    \cup
    {MovingState("OuterLoop", "JR-East.Yamanote.Shinagawa", "JR-East.Yamanote.Osaki",
                 PROGRESS_ONE \div 4),
     MovingState("InnerLoop", "JR-East.Yamanote.Harajuku", "JR-East.Yamanote.Shibuya",
                 PROGRESS_ONE \div 4),
     \* straight-line fallback: the to station has no track index
     MovingState("OuterLoop", "JR-East.Yamanote.Kanda", STATION_WITHOUT_INDEX,
                 PROGRESS_ONE \div 4),
     MovingState("OuterLoop", "JR-East.Yamanote.Kanda", STATION_WITHOUT_INDEX, NoneNum),
     \* no coordinate at all
     MovingState("OuterLoop", STATION_WITHOUT_INDEX, STATION_WITHOUT_COORD,
                 PROGRESS_ONE \div 4),
     MovingState("OuterLoop", "Unknown.Station.A", "JR-East.Yamanote.Shibuya",
                 PROGRESS_ONE \div 4),
     MovingState("OuterLoop", NoneVal, "JR-East.Yamanote.Harajuku", PROGRESS_ONE \div 4),
     StoppedState("OuterLoop", "JR-East.Yamanote.Shibuya", "JR-East.Yamanote.Shibuya"),
     StoppedState("InnerLoop", NoneVal, "JR-East.Yamanote.Harajuku"),
     StoppedState("OuterLoop", STATION_WITHOUT_COORD, "JR-East.Yamanote.Shibuya"),
     StoppedState("OuterLoop", NoneVal, NoneVal)}

Report(latitude, longitude, staleness) ==
    [kind |-> "ok", latitude |-> latitude, longitude |-> longitude,
     stop_sequence |-> 5, status |-> 2,
     timestamp |-> IF staleness = NoneNum THEN NoneNum ELSE NOW - staleness]

\* Ages of a report in seconds: the two thresholds, their neighbours, the
\* middle of the stale window, a report from the future, and None (a
\* report without timestamp).
Stalenesses ==
    {-5, 0, FRESH_THRESHOLD, FRESH_THRESHOLD + 1,
     (FRESH_THRESHOLD + STALE_THRESHOLD) \div 2,
     STALE_THRESHOLD - 1, STALE_THRESHOLD, STALE_THRESHOLD + 1, NoneNum}

\* Reported points <<lat, lon>>: the middle of Shibuya-Harajuku, the
\* start of it, the middle of Ebisu-Shibuya (the previous segment of the
\* outer loop), the middle of Harajuku-Yoyogi (the next one).
PointsOnTrack ==
    {<<0, 9 * GRID_STEP>>, <<0, 8 * GRID_STEP>>, <<0, 7 * GRID_STEP>>, <<0, 11 * GRID_STEP>>}

\* The points reported with every age: the first and the third.
PointsOfEveryAge == {<<0, 9 * GRID_STEP>>, <<0, 7 * GRID_STEP>>}

\* One grid step (500 m) and three grid steps north of the track; on the
\* far side of the loop, in the middle of Akihabara-Kanda; a report without
\* latitude.
PointsElsewhere ==
    {<<GRID_STEP, 9 * GRID_STEP>>, <<3 * GRID_STEP, 9 * GRID_STEP>>,
     <<TRACK_HEIGHT * GRID_STEP, 6 * GRID_STEP>>, <<NoneNum, 9 * GRID_STEP>>}

Reports ==
    {Report(pt[1], pt[2], age) : pt \in PointsOfEveryAge, age \in Stalenesses}
    \cup {Report(pt[1], pt[2], age) :
             pt \in PointsOnTrack \cup PointsElsewhere, age \in {0, FRESH_THRESHOLD + 1}}

\* One train of a request: its schedule state and its report (ReturnsNone
\* when the feed has none for its number).
TrainInputs == ScheduleStates \X (Reports \cup {ReturnsNone})

\* The other trains of a request: a moving train with a fresh report, a
\* stopped train and a train without coordinate, both without report.
Companions ==
    {<<MovingState("OuterLoop", "JR-East.Yamanote.Shibuya", "JR-East.Yamanote.Harajuku",
                   PROGRESS_ONE \div 4),
       Report(0, 9 * GRID_STEP, 0)>>,
     <<StoppedState("OuterLoop", "JR-East.Yamanote.Shibuya", "JR-East.Yamanote.Shibuya"),
       ReturnsNone>>,
     <<MovingState("OuterLoop", STATION_WITHOUT_INDEX, STATION_WITHOUT_COORD,
                   PROGRESS_ONE \div 4),
       ReturnsNone>>}

\* A request of n trains: the k-th is the train v and the others are the
\* companions c[i].
BatchOf(n, k, v, c) == [i \in 1..n |-> IF i = k THEN v ELSE c[i]]

\* get_yamanote_trains_at(current_time, cache): the schedule states.
StatesOf(batch) ==
    [i \in 1..Len(batch) |->
        [number |-> TrainNumber(i),
         direction |-> batch[i][1].direction,
         is_stopped |-> batch[i][1].is_stopped,
         stopped_at_station_id |-> batch[i][1].stopped_at_station_id,
         from_station_id |-> batch[i][1].from_station_id,
         to_station_id |-> batch[i][1].to_station_id,
         progress |-> batch[i][1].progress]]

\* {pos.train_number: pos for pos in gtfs_list}
GtfsDataOf(batch) ==
    [n \in {TrainNumber(i) : i \in {j \in 1..Len(batch) : batch[j][2].kind = "ok"}} |->
        LET i == CHOOSE j \in 1..Len(batch) : TrainNumber(j) = n
        IN  [kind |-> "ok", train_number |-> n,
             latitude |-> batch[i][2].latitude, longitude |-> batch[i][2].longitude,
             stop_sequence |-> batch[i][2].stop_sequence, status |-> batch[i][2].status,
             timestamp |-> batch[i][2].timestamp]]

-----------------------------------------------------------------------------
(* Spec: one request served by get_blended_train_positions or by           *)
(* get_yamanote_train_positions, one turn of the loop at a time.           *)

BatchFunctions == {"get_blended_train_positions", "get_yamanote_train_positions"}

\* The arguments of a call for the request batch.
BatchCall(fn, cache, batch) ==
    [fn |-> fn,
     args |-> [current_time |-> NOW,
               cache |-> cache,
               gtfs_data |-> IF fn = "get_blended_train_positions"
                             THEN GtfsDataOf(batch) ELSE << >>,
               states |-> StatesOf(batch)]]

\* A request of up to MaxTrains trains, one of them any train and the
\* others companions.
Init ==
    /\ \E cache \in Caches, fn \in BatchFunctions :
          \/ call = BatchCall(fn, cache, << >>)
          \/ \E n \in 1..MaxTrains :
                \E k \in 1..n, v \in TrainInputs, c \in [1..n -> Companions] :
                    call = BatchCall(fn, cache, BatchOf(n, k, v, c))
    /\ ret = Pending
    /\ BatchIdle

\* The effect of one turn on the state of the call.
RecordTurn(state, turn) ==
    /\ locals' = [kind |-> turn.kind, state |-> state, after_try |-> turn.locals]
    /\ neighbor_found_count' = neighbor_found_count + turn.locals.neighbor_found
    /\ IF turn.kind = "raise"
       THEN /\ ret' = Raises
            /\ UNCHANGED <<done, results, blend_stats>>
       ELSE /\ done' = done + 1
            /\ ret' = ret
            /\ IF turn.kind = "ok"
               THEN /\ blend_stats' =
                          [blend_stats EXCEPT ![turn.locals.data_quality] = @ + 1]
                    /\ results' = Append(results, turn.pos)
               ELSE UNCHANGED <<results, blend_stats>>

\* get_blended_train_positions, one turn of "for state in states"; an
\* exception that no handler catches ends the call.
BlendedLoopTurn ==
    /\ call.fn = "get_blended_train_positions"
    /\ ret = Pending
    /\ done < Len(call.args.states)
    /\ RecordTurn(call.args.states[done + 1],
                  BlendedTurn(call.args.states[done + 1], call.args.gtfs_data,
                              call.args.current_time, call.args.cache))
    /\ UNCHANGED <<call, skipped, log, runs>>

\* get_blended_train_positions after the loop: the summary and the return.
BlendedReturn ==
    /\ call.fn = "get_blended_train_positions"
    /\ ret = Pending
    /\ done = Len(call.args.states)
    /\ log' = [kind |-> "blended",
               blended |-> Len(results),
               good |-> blend_stats.good,
               stale |-> blend_stats.stale,
               rejected |-> blend_stats.rejected,
               timetable_only |-> blend_stats.timetable_only,
               error |-> blend_stats.error,
               neighbor_found |-> neighbor_found_count]
    /\ ret' = Returned(results)
    /\ UNCHANGED <<call, done, results, skipped, blend_stats, neighbor_found_count, locals, runs>>

\* get_yamanote_train_positions, one turn of "for state in states": the
\* handler catches every exception of train_state_to_position.
YamanoteLoopTurn ==
    /\ call.fn = "get_yamanote_train_positions"
    /\ ret = Pending
    /\ done < Len(call.args.states)
    /\ LET state == call.args.states[done + 1]
           pos == train_state_to_position(state, call.args.cache)
       IN  /\ done' = done + 1
           /\ IF pos.kind = "ok"
              THEN /\ results' = Append(results, pos.pos)
                   /\ skipped' = skipped
              ELSE /\ skipped' = skipped + 1
                   /\ results' = results
    /\ UNCHANGED <<call, ret, blend_stats, neighbor_found_count, locals, log, runs>>

\* get_yamanote_train_positions after the loop: the summary and the return.
YamanoteReturn ==
    /\ call.fn = "get_yamanote_train_positions"
    /\ ret = Pending
    /\ done = Len(call.args.states)
    /\ log' = [kind |-> "yamanote", converted |-> Len(results), skipped |-> skipped]
    /\ ret' = Returned(results)
    /\ UNCHANGED <<call, done, results, skipped, blend_stats, neighbor_found_count, locals, runs>>

Next ==
    \/ BlendedLoopTurn
    \/ BlendedReturn
    \/ YamanoteLoopTurn
    \/ YamanoteReturn

Spec == Init /\ [][Next]_vars

-----------------------------------------------------------------------------
(* SpecCalls: single calls of the core functions on drawn arguments, and   *)
(* requests served twice.  The inputs of the calls.                        *)

\* The most vertices of the open polylines the resolver is called with.
MaxVertices == 6

\* The most calls of a batch function with the same arguments.
MaxRuns == 2

\* A polyline of M distinct vertices: the first M vertices of the track.
PolylineOfLen(M) == [k \in 1..M |-> TrackVertex(k - 1)]

\* A cache whose polyline has M vertices and whose two stations stand at
\* the vertex indices a and b.
IndexedCache(M, a, b) ==
    [track_points |-> PolylineOfLen(M),
     station_track_indices |->
        ("JR-East.Yamanote.Shibuya" :> a) @@ ("JR-East.Yamanote.Harajuku" :> b),
     station_positions |->
        ("JR-East.Yamanote.Shibuya" :> TrackVertex(a))
           @@ ("JR-East.Yamanote.Harajuku" :> TrackVertex(b))]

\* A track that turns at Shibuya and at Harajuku: Ebisu and Yoyogi lie side
\* by side, one grid step north of the two.
BendStations ==
    ("JR-East.Yamanote.Ebisu" :> 0) @@ ("JR-East.Yamanote.Shibuya" :> 1)
       @@ ("JR-East.Yamanote.Harajuku" :> 2) @@ ("JR-East.Yamanote.Yoyogi" :> 3)

BendTrack ==
    << <<8 * GRID_STEP, GRID_STEP>>, <<8 * GRID_STEP, 0>>,
       <<10 * GRID_STEP, 0>>, <<10 * GRID_STEP, GRID_STEP>> >>

\* Paths <<lon, lat>> of the synthesizer and the estimator: empty, a
\* single point, coinciding points, a zero-length edge before and after a
\* real one, and paths without degenerate edge, one of them bent twice.
GeomPaths ==
    LET p == <<8 * GRID_STEP, 0>>
        q == <<10 * GRID_STEP, 0>>
        r == <<10 * GRID_STEP, 2 * GRID_STEP>>
    IN  {<< >>, <<p>>, <<p, p>>, <<p, p, p>>, <<p, q>>, <<p, p, q>>, <<p, q, q>>,
         <<p, q, r>>, <<q, p>>, BendTrack}

\* Progresses: 0.0, 0.25, 0.5, 1.0, 1.5, -0.5 and None.
CallProgresses ==
    {0, PROGRESS_ONE \div 4, PROGRESS_ONE \div 2, PROGRESS_ONE,
     (3 * PROGRESS_ONE) \div 2, 0 - PROGRESS_ONE \div 2, NoneNum}

\* Targets <<lat, lon>> of the estimator and the search: on the track (the
\* vertices of Shibuya and of Harajuku and the point half way), off
\* it by one and by three grid steps, ahead of and behind the segment
\* Shibuya-Harajuku, and without latitude.
CallTargets ==
    {<<0, 9 * GRID_STEP>>, <<0, 8 * GRID_STEP>>, <<0, 7 * GRID_STEP>>,
     <<0, 10 * GRID_STEP>>, <<0, 11 * GRID_STEP>>, <<GRID_STEP, 9 * GRID_STEP>>, <<GRID_STEP, 7 * GRID_STEP>>,
     <<3 * GRID_STEP, 9 * GRID_STEP>>, <<GRID_STEP \div 2, 8 * GRID_STEP - 5>>,
     <<NoneNum, 9 * GRID_STEP>>}

\* max_distance_m of the estimator calls: the default, half of it and 0.
CallMaxDistances == {MAX_DISTANCE_M, MAX_DISTANCE_M \div 2, 0}

\* Station ids of the calls: with track index and coordinate, with a
\* coordinate only, with neither, not listed, and None.
CallStations ==
    {"JR-East.Yamanote.Shibuya", "JR-East.Yamanote.Harajuku", "JR-East.Yamanote.Kanda",
     STATION_WITHOUT_INDEX, STATION_WITHOUT_COORD, "Unknown.Station.A", NoneVal}

\* Caches of the resolver and of the search: the two of the requests, one
\* whose stations are indexed but whose polyline is empty, and one in
\* which Shibuya has no vertex index; and one with a bent track.
CacheWithEmptyTrack ==
    [track_points |-> << >>,
     station_track_indices |-> StationTrackIndices,
     station_positions |-> StationPositions]

CacheWithoutShibuyaIndex ==
    [track_points |-> FullTrack,
     station_track_indices |->
        [s \in (DOMAIN StationTrackIndices) \ {"JR-East.Yamanote.Shibuya"} |->
            StationTrackIndices[s]],
     station_positions |-> StationPositions]

CacheWithBend ==
    [track_points |-> BendTrack,
     station_track_indices |-> BendStations,
     station_positions |-> [st \in DOMAIN BendStations |-> BendTrack[BendStations[st] + 1]]]

CallCaches == Caches \cup {CacheWithEmptyTrack, CacheWithoutShibuyaIndex, CacheWithBend}

\* Nominal segments of the search with the direction of the train: the
\* outer loop runs up the ordinals and the inner loop down.
CallSegments ==
    {<<"JR-East.Yamanote.Shibuya", "JR-East.Yamanote.Harajuku", "OuterLoop">>,
     <<"JR-East.Yamanote.Harajuku", "JR-East.Yamanote.Shibuya", "InnerLoop">>,
     <<"JR-East.Yamanote.Ebisu", "JR-East.Yamanote.Shibuya", "OuterLoop">>,
     <<"JR-East.Yamanote.Harajuku", "JR-East.Yamanote.Yoyogi", "OuterLoop">>,
     <<"JR-East.Yamanote.Yoyogi", "JR-East.Yamanote.Harajuku", "InnerLoop">>,
     <<"JR-East.Yamanote.Shinagawa", "JR-East.Yamanote.Osaki", "OuterLoop">>,
     <<"JR-East.Yamanote.Osaki", "JR-East.Yamanote.Shinagawa", "InnerLoop">>,
     <<"JR-East.Yamanote.Kanda", STATION_WITHOUT_INDEX, "OuterLoop">>,
     <<"Unknown.Station.A", "JR-East.Yamanote.Shibuya", "OuterLoop">>}

\* A schedule state with its train number.
NumberedState(i, state) ==
    [number |-> TrainNumber(i),
     direction |-> state.direction,
     is_stopped |-> state.is_stopped,
     stopped_at_station_id |-> state.stopped_at_station_id,
     from_station_id |-> state.from_station_id,
     to_station_id |-> state.to_station_id,
     progress |-> state.progress]

\* The trains of the requests that are served twice: every schedule state
\* without report, with a fresh report on its segment, a stale one on the
\* previous segment, a rejected one, and one without timestamp.
RerunInputs ==
    ScheduleStates \X
        {ReturnsNone,
         Report(0, 9 * GRID_STEP, 0),
         Report(0, 7 * GRID_STEP, (FRESH_THRESHOLD + STALE_THRESHOLD) \div 2),
         Report(3 * GRID_STEP, 9 * GRID_STEP, 0),
         Report(0, 9 * GRID_STEP, NoneNum)}

-----------------------------------------------------------------------------
(* SpecCalls: the calls.                                                   *)

\* The returned list is the cache's own list of points.
MutSegmentOwnerCache(coords) == "cache"

\* "return [[c[0], c[1]] for c in coords]": the list and its points are
\* new objects, which only the caller holds.
SegmentOwner(coords) == "caller"

\* get_segment_coords with None told from a list.
SegmentCoordsOrNone(from_station_id, to_station_id, direction, cache) ==
    IF \/ from_station_id \notin DOMAIN cache.station_track_indices
       \/ to_station_id \notin DOMAIN cache.station_track_indices
       \/ cache.track_points = << >>
    THEN ReturnsNone
    ELSE [kind |-> "ok",
          value |-> get_segment_coords(from_station_id, to_station_id, direction, cache),
          owner |-> SegmentOwner(get_segment_coords(from_station_id, to_station_id,
                                                    direction, cache))]

\* Trip ids and train numbers of the feed client are sequences of
\* characters.  The trip ids of test_train_number.py, one with a letter in
\* the number and the bare prefix.
TripIds ==
    {<<"4", "2", "0", "1", "3", "0", "1", "G">>,
     <<"4", "2", "0", "2", "0", "9", "0", "6", "G">>,
     <<"4", "2", "0", "1", "0", "4", "6", "1", "G">>,
     <<"4", "2", "1", "1", "9", "0", "4", "G">>,
     <<"4", "2", "1", "1", "0", "0", "0", "2", "G">>,
     <<"4", "2", "0", "1", "0", "A", "1", "G">>,
     <<"4", "2", "0", "1">>}

DigitChars == {"0", "1", "2", "3", "4", "5", "6", "7", "8", "9"}

\* gtfs_rt_vehicle.get_train_number: trip_id[4:].
get_train_number(trip_id) ==
    IF Len(trip_id) <= 4 THEN << >> ELSE Slice(trip_id, 4, Len(trip_id))

\* str(int(number_part)): the digits without their leading zeros.
RECURSIVE StripZeros(_)
StripZeros(number_part) ==
    IF Len(number_part) > 1 /\ number_part[1] = "0"
    THEN StripZeros(Tail(number_part))
    ELSE number_part

\* test_train_number.get_train_number: the form of the timetable's train
\* numbers: the 4-character prefix dropped and, when the rest is digits
\* followed by one letter, the zero padding of the digits removed.
test_get_train_number(trip_id) ==
    IF Len(trip_id) <= 4 THEN trip_id
    ELSE LET suffix == Slice(trip_id, 4, Len(trip_id))
             n == Len(suffix)
         IN  IF /\ n >= 2
                /\ \A i \in 1..(n - 1) : suffix[i] \in DigitChars
                /\ suffix[n] \notin DigitChars
             THEN StripZeros(SubSeq(suffix, 1, n - 1)) \o << suffix[n] >>
             ELSE suffix

\* {pos.train_number: pos for pos in gtfs_list} for a feed of one vehicle.
FeedData(trip_id) ==
    get_train_number(trip_id) :> [kind |-> "ok", trip_id |-> trip_id,
                                  train_number |-> get_train_number(trip_id)]

\* Direction values of the resolver calls: those of the feed client
\* (get_direction returns 'Unknown' for a trip id it cannot read).
CallDirections == Directions \cup {"Unknown"}

\* The list is the one the last call left behind (a module-level list, or
\* a mutable default argument).
MutResultsKept(left_behind) == left_behind

\* "results = []" / "result: list[TrainPosition] = []"
NewResults(left_behind) == << >>

CoreCall(fn, args) == [fn |-> fn, args |-> args]

InitCalls ==
    /\ \/ \E M \in 1..MaxVertices, d \in CallDirections :
            \E a \in 0..(M - 1), b \in 0..(M - 1) :
               \/ call = CoreCall("_get_path_points",
                            [start_idx |-> a, end_idx |-> b, direction |-> d,
                             track_points |-> PolylineOfLen(M)])
               \/ call = CoreCall("get_segment_coords",
                            [from_station_id |-> "JR-East.Yamanote.Shibuya",
                             to_station_id |-> "JR-East.Yamanote.Harajuku",
                             direction |-> d, cache |-> IndexedCache(M, a, b)])
       \/ \E seg \in CallSegments, cache \in CallCaches :
            call = CoreCall("get_segment_coords",
                       [from_station_id |-> seg[1], to_station_id |-> seg[2],
                        direction |-> seg[3], cache |-> cache])
       \/ \E path \in GeomPaths, progress \in CallProgresses :
            call = CoreCall("_get_point_on_path", [path |-> path, progress |-> progress])
       \/ \E trip_id \in TripIds :
            call = CoreCall("get_train_number", [trip_id |-> trip_id])
       \/ \E path \in GeomPaths, target \in CallTargets, m \in CallMaxDistances,
             fn \in {"estimate_segment_progress_extended", "estimate_segment_progress"} :
            call = CoreCall(fn,
                       [segment_coords |-> path, target_lat |-> target[1],
                        target_lon |-> target[2], max_distance_m |-> m])
       \/ \E path \in {q \in GeomPaths : Len(q) = 2}, target \in CallTargets :
            /\ target[1] # NoneNum
            /\ call = CoreCall("point_to_segment_distance",
                          [px |-> target[2], py |-> target[1],
                           ax |-> path[1][1], ay |-> path[1][2],
                           bx |-> path[2][1], by |-> path[2][2]])
       \/ \E f \in CallStations, t \in CallStations, progress \in CallProgresses,
             d \in Directions, cache \in Caches :
            call = CoreCall("_interpolate_coords",
                       [from_station_id |-> f, to_station_id |-> t, progress |-> progress,
                        direction |-> d, cache |-> cache])
       \/ \E seg \in CallSegments, target \in CallTargets, cache \in CallCaches :
            call = CoreCall("find_train_on_segments",
                       [gtfs_lat |-> target[1], gtfs_lon |-> target[2],
                        from_station_id |-> seg[1], to_station_id |-> seg[2],
                        direction |-> seg[3], cache |-> cache,
                        max_distance_m |-> MAX_DISTANCE_M])
       \/ \E state \in ScheduleStates, cache \in Caches,
             override_progress \in {NoneNum, PROGRESS_ONE \div 2},
             override \in {<<NoneVal, NoneVal>>,
                           <<"JR-East.Yamanote.Ebisu", "JR-East.Yamanote.Shibuya">>} :
            call = CoreCall("train_state_to_position_with_override",
                       [state |-> NumberedState(1, state), cache |-> cache,
                        override_progress |-> override_progress,
                        data_quality |-> "good", gtfs_info |-> ReturnsNone,
                        override_from_station |-> override[1],
                        override_to_station |-> override[2],
                        timetable_coords |-> NoCoords, gtfs_coords |-> NoCoords])
       \/ \E cache \in Caches, fn \in BatchFunctions :
            \E n \in 1..MaxTrains :
               \E k \in 1..n, v \in RerunInputs, c \in [1..n -> Companions] :
                  call = BatchCall(fn, cache, BatchOf(n, k, v, c))
    /\ ret = Pending
    /\ BatchIdle

CallGetPathPoints ==
    /\ call.fn = "_get_path_points"
    /\ ret = Pending
    /\ ret' = Returned(_get_path_points(call.args.start_idx, call.args.end_idx,
                                        call.args.direction, call.args.track_points))
    /\ UNCHANGED <<call, batch_vars>>

CallGetSegmentCoords ==
    /\ call.fn = "get_segment_coords"
    /\ ret = Pending
    /\ ret' = SegmentCoordsOrNone(call.args.from_station_id, call.args.to_station_id,
                                  call.args.direction, call.args.cache)
    /\ UNCHANGED <<call, batch_vars>>

\* The caller writes into the first point of the list it was handed
\* (coords[0][0] += 1); a list the cache also holds changes there too.
\* The kind of ret becomes "changed".
ChangeReturnedSegment ==
    /\ call.fn = "get_segment_coords"
    /\ ret.kind = "ok"
    /\ Len(ret.value) > 0
    /\ \E i \in 1..Len(call.args.cache.track_points) :
          call.args.cache.track_points[i] = ret.value[1]
    /\ ret' = [ret EXCEPT !.kind = "changed",
                          !.value[1] = <<ret.value[1][1] + 1, ret.value[1][2]>>]
    /\ call' = IF ret.owner = "cache"
               THEN [call EXCEPT !.args.cache.track_points =
                       [i \in 1..Len(call.args.cache.track_points) |->
                           IF call.args.cache.track_points[i] = ret.value[1]
                           THEN <<ret.value[1][1] + 1, ret.value[1][2]>>
                           ELSE call.args.cache.track_points[i]]]
               ELSE call
    /\ UNCHANGED batch_vars

CallGetTrainNumber ==
    /\ call.fn = "get_train_number"
    /\ ret = Pending
    /\ ret' = Returned(get_train_number(call.args.trip_id))
    /\ UNCHANGED <<call, batch_vars>>

CallGetPointOnPath ==
    /\ call.fn = "_get_point_on_path"
    /\ ret = Pending
    /\ ret' = _get_point_on_path(call.args.path, call.args.progress)
    /\ UNCHANGED <<call, batch_vars>>

CallEstimateSegmentProgressExtended ==
    /\ call.fn = "estimate_segment_progress_extended"
    /\ ret = Pending
    /\ ret' = estimate_segment_progress_extended(
                  call.args.segment_coords, call.args.target_lat, call.args.target_lon,
                  call.args.max_distance_m)
    /\ UNCHANGED <<call, batch_vars>>

CallEstimateSegmentProgress ==
    /\ call.fn = "estimate_segment_progress"
    /\ ret = Pending
    /\ ret' = estimate_segment_progress(
                  call.args.segment_coords, call.args.target_lat, call.args.target_lon,
                  call.args.max_distance_m)
    /\ UNCHANGED <<call, batch_vars>>

CallPointToSegmentDistance ==
    /\ call.fn = "point_to_segment_distance"
    /\ ret = Pending
    /\ ret' = Returned(point_to_segment_distance(call.args.px, call.args.py,
                                                 call.args.ax, call.args.ay,
                                                 call.args.bx, call.args.by))
    /\ UNCHANGED <<call, batch_vars>>

CallInterpolateCoords ==
    /\ call.fn = "_interpolate_coords"
    /\ ret = Pending
    /\ ret' = _interpolate_coords(call.args.from_station_id, call.args.to_station_id,
                                  call.args.progress, call.args.direction, call.args.cache)
    /\ UNCHANGED <<call, batch_vars>>

CallFindTrainOnSegments ==
    /\ call.fn = "find_train_on_segments"
    /\ ret = Pending
    /\ ret' = find_train_on_segments(call.args.gtfs_lat, call.args.gtfs_lon,
                                     call.args.from_station_id, call.args.to_station_id,
                                     call.args.direction, call.args.cache,
                                     call.args.max_distance_m)
    /\ UNCHANGED <<call, batch_vars>>

CallTrainStateToPositionWithOverride ==
    /\ call.fn = "train_state_to_position_with_override"
    /\ ret = Pending
    /\ ret' = train_state_to_position_with_override(
                  call.args.state, call.args.cache, call.args.override_progress,
                  call.args.data_quality, call.args.gtfs_info,
                  call.args.override_from_station, call.args.override_to_station,
                  call.args.timetable_coords, call.args.gtfs_coords)
    /\ UNCHANGED <<call, batch_vars>>

\* The caller calls the batch function again with the same arguments: the
\* locals of the function are created anew.
CallAgain ==
    /\ call.fn \in BatchFunctions
    /\ ret.kind \in {"ok", "raise"}
    /\ Len(runs) < MaxRuns - 1
    /\ runs' = Append(runs, ret)
    /\ ret' = Pending
    /\ done' = 0
    /\ results' = NewResults(results)
    /\ skipped' = 0
    /\ blend_stats' = NoStats
    /\ neighbor_found_count' = 0
    /\ locals' = NoLocals
    /\ log' = NoLog
    /\ UNCHANGED call

NextCalls ==
    \/ CallGetPathPoints
    \/ CallGetSegmentCoords
    \/ ChangeReturnedSegment
    \/ CallGetPointOnPath
    \/ CallGetTrainNumber
    \/ CallEstimateSegmentProgressExtended
    \/ CallEstimateSegmentProgress
    \/ CallPointToSegmentDistance
    \/ CallInterpolateCoords
    \/ CallFindTrainOnSegments
    \/ CallTrainStateToPositionWithOverride
    \/ BlendedLoopTurn
    \/ BlendedReturn
    \/ YamanoteLoopTurn
    \/ YamanoteReturn
    \/ CallAgain

SpecCalls == InitCalls /\ [][NextCalls]_vars

-----------------------------------------------------------------------------
(* Claims about get_adjacent_segments (SpecAdj).                           *)

ordinal(s) == YAMANOTE_STATION_INDEX[s]

AdjCalled == call.fn = "get_adjacent_segments" /\ ret.kind = "ok"

\* C1: for two listed stations and either direction the result is exactly
\* the three pairs [nominal, previous, next]: (from, to); (the station one
\* ordinal behind from, from); (to, the station one ordinal ahead of to),
\* "behind" being ordinal - 1 for OuterLoop and ordinal + 1 for InnerLoop,
\* modulo the number of stations.
C1_ThreeCandidatesInOrder ==
    AdjCalled =>
        LET f == call.args[1]
            t == call.args[2]
            d == call.args[3]
            N == NUM_YAMANOTE_STATIONS
        IN  (f \in KnownStations /\ t \in KnownStations) =>
                /\ Len(ret.value) = 3
                /\ ret.value[1] = <<f, t>>
                /\ d = "OuterLoop" =>
                      /\ ret.value[2] = <<station_at((ordinal(f) - 1) % N), f>>
                      /\ ret.value[3] = <<t, station_at((ordinal(t) + 1) % N)>>
                /\ d = "InnerLoop" =>
                      /\ ret.value[2] = <<station_at((ordinal(f) + 1) % N), f>>
                      /\ ret.value[3] = <<t, station_at((ordinal(t) - 1) % N)>>

\* The two seam cases of the repository's tests are reached with their
\* expected results.
C1_Witness ==
    \/ /\ AdjCalled
       /\ call.args = <<"JR-East.Yamanote.Shinagawa", "JR-East.Yamanote.Osaki", "OuterLoop">>
       /\ ret.value = << <<"JR-East.Yamanote.Shinagawa", "JR-East.Yamanote.Osaki">>,
                   <<"JR-East.Yamanote.TakanawaGateway", "JR-East.Yamanote.Shinagawa">>,
                   <<"JR-East.Yamanote.Osaki", "JR-East.Yamanote.Gotanda">> >>
    \/ /\ AdjCalled
       /\ call.args = <<"JR-East.Yamanote.Osaki", "JR-East.Yamanote.Shinagawa", "InnerLoop">>
       /\ ret.value = << <<"JR-East.Yamanote.Osaki", "JR-East.Yamanote.Shinagawa">>,
                   <<"JR-East.Yamanote.Gotanda", "JR-East.Yamanote.Osaki">>,
                   <<"JR-East.Yamanote.Shinagawa", "JR-East.Yamanote.TakanawaGateway">> >>

\* C2: when the from station or the to station is not in the station-order
\* table, the result is the single pair (from, to), for either direction.
C2_UnknownStationIdentity ==
    AdjCalled =>
        LET f == call.args[1]
            t == call.args[2]
        IN  (f \notin KnownStations \/ t \notin KnownStations) =>
                ret.value = << <<f, t>> >>

\* Only one side is unknown and the single pair comes back.
C2_Witness ==
    /\ AdjCalled
    /\ call.args[1] = "JR-East.Yamanote.Shibuya"
    /\ call.args[2] = "Unknown.Station.B"
    /\ ret.value = << <<"JR-East.Yamanote.Shibuya", "Unknown.Station.B">> >>

\* C16: the station topology is a bijection between the N = 30 station
\* ids and the ordinals 0..N-1: ordinal(station_at(i)) = i for every i in
\* [0, N), station_at(ordinal(s)) = s for every listed station s, no id is
\* listed twice and the index has exactly N entries.
C16_TopologyIsBijection ==
    /\ NUM_YAMANOTE_STATIONS = 30
    /\ \A i \in 0..(NUM_YAMANOTE_STATIONS - 1) : ordinal(station_at(i)) = i
    /\ \A s \in KnownStations :
          /\ ordinal(s) \in 0..(NUM_YAMANOTE_STATIONS - 1)
          /\ station_at(ordinal(s)) = s
    /\ \A i, j \in 0..(NUM_YAMANOTE_STATIONS - 1) :
          station_at(i) = station_at(j) => i = j
    /\ Cardinality(DOMAIN YAMANOTE_STATION_INDEX) = NUM_YAMANOTE_STATIONS
    /\ (AdjCalled /\ call.args[1] \in KnownStations /\ call.args[2] \in KnownStations) =>
          /\ station_at(ordinal(call.args[1])) = call.args[1]
          /\ station_at(ordinal(call.args[2])) = call.args[2]

\* The call for the segment across the seam, from the last listed station
\* to the first, has returned.
C16_Witness ==
    /\ AdjCalled
    /\ call.args[1] = station_at(NUM_YAMANOTE_STATIONS - 1)
    /\ call.args[2] = station_at(0)
    /\ ordinal(call.args[1]) = NUM_YAMANOTE_STATIONS - 1
    /\ ordinal(call.args[2]) = 0
    /\ Len(ret.value) = 3

-----------------------------------------------------------------------------
(* Claims about one turn of get_blended_train_positions (Spec).  The turn  *)
(* looked at is the last one taken; its locals are in the variable locals. *)

BlendedTurnTaken == call.fn = "get_blended_train_positions" /\ locals.kind # "idle"

\* The turn was for a moving train.
MovingTurn == BlendedTurnTaken /\ ~locals.state.is_stopped

\* The feed has a report for the train of the turn.
ReportOfTurn == MatchReport(locals.state, call.args.gtfs_data)

\* What the neighbor search returned for the train of the turn
\* ("search_result"; ReturnsNone when the search was not run).
SearchOfTurn == locals.after_try.search_result

\* The turn found a segment for the report and the report has an age.
MatchedTurn ==
    /\ MovingTurn
    /\ ReportOfTurn.kind = "ok"
    /\ SearchOfTurn.kind = "ok"
    /\ ReportOfTurn.timestamp # NoneNum

StalenessOfTurn == call.args.current_time - ReportOfTurn.timestamp

\* The record the turn appended, when it appended one.
RecordOfTurn == results[Len(results)]

\* The turn left the schedule's progress and segment, with quality q, in
\* the locals and in the record.
TimetablePositionWith(q) ==
    /\ locals.after_try.blended_progress = locals.state.progress
    /\ locals.after_try.final_from_station = locals.state.from_station_id
    /\ locals.after_try.final_to_station = locals.state.to_station_id
    /\ locals.after_try.data_quality = q
    /\ locals.kind = "ok" =>
          /\ RecordOfTurn.progress = locals.state.progress
          /\ RecordOfTurn.from_station_id = locals.state.from_station_id
          /\ RecordOfTurn.to_station_id = locals.state.to_station_id
          /\ RecordOfTurn.data_quality = q

\* C3: for a moving train without real-time match the blended progress is
\* the schedule progress and the segment is the schedule's; the quality is
\* timetable_only when the feed has no report for the train number and
\* rejected when it has one that find_train_on_segments returned None for.
C3_NoMatchKeepsTimetable ==
    MovingTurn =>
        /\ ReportOfTurn.kind = "none" => TimetablePositionWith("timetable_only")
        /\ (ReportOfTurn.kind = "ok" /\ SearchOfTurn.kind = "none") =>
              TimetablePositionWith("rejected")

\* A report three grid steps off the track is rejected and the record is
\* appended with the schedule's progress.
C3_Witness ==
    /\ MovingTurn
    /\ ReportOfTurn.kind = "ok"
    /\ SearchOfTurn.kind = "none"
    /\ locals.kind = "ok"
    /\ RecordOfTurn.data_quality = "rejected"
    /\ RecordOfTurn.progress = PROGRESS_ONE \div 4

\* C4: for a staleness up to FRESH_THRESHOLD, FRESH_THRESHOLD included, the
\* blended progress is the real-time progress and the quality is good; one
\* second later the quality is stale (for a schedule progress that is a
\* number).
C4_FreshReportWins ==
    MatchedTurn =>
        /\ StalenessOfTurn <= FRESH_THRESHOLD =>
              /\ locals.after_try.blended_progress = SearchOfTurn.progress
              /\ locals.after_try.data_quality = "good"
              /\ locals.kind = "ok" =>
                    /\ RecordOfTurn.progress = SearchOfTurn.progress
                    /\ RecordOfTurn.data_quality = "good"
        /\ (StalenessOfTurn = FRESH_THRESHOLD + 1 /\ locals.state.progress # NoneNum) =>
              locals.after_try.data_quality = "stale"

\* A report aged exactly FRESH_THRESHOLD whose progress differs from the
\* schedule's.
C4_Witness ==
    /\ MatchedTurn
    /\ StalenessOfTurn = FRESH_THRESHOLD
    /\ SearchOfTurn.progress # locals.state.progress
    /\ locals.kind = "ok"
    /\ RecordOfTurn.data_quality = "good"
    /\ RecordOfTurn.progress = SearchOfTurn.progress

Abs(x) == IF x >= 0 THEN x ELSE -x

SearchRaised == ReportOfTurn.kind = "ok" /\ SearchOfTurn.kind = "raise"

StalenessRaised ==
    ReportOfTurn.kind = "ok" /\ SearchOfTurn.kind = "ok" /\ ReportOfTurn.timestamp = NoneNum

BlendRaised ==
    /\ MatchedTurn
    /\ blend_progress(locals.state.progress, SearchOfTurn.progress,
                      StalenessOfTurn).kind = "raise"

\* C7: when an exception is raised during the neighbor search, the
\* staleness computation or the blend of a moving train, its quality is
\* error and its blended progress is its schedule progress.
C7_ExceptionGivesError ==
    (MovingTurn /\ (SearchRaised \/ StalenessRaised \/ BlendRaised)) =>
        /\ locals.after_try.data_quality = "error"
        /\ locals.after_try.blended_progress = locals.state.progress
        /\ locals.kind = "ok" =>
              /\ RecordOfTurn.data_quality = "error"
              /\ RecordOfTurn.progress = locals.state.progress

\* The staleness computation raised after the search had matched a
\* segment with another progress, and the record was appended.
C7_Witness ==
    /\ MovingTurn
    /\ StalenessRaised
    /\ SearchOfTurn.progress # locals.state.progress
    /\ locals.kind = "ok"
    /\ RecordOfTurn.data_quality = "error"

-----------------------------------------------------------------------------
(* Claims about a whole batch (Spec).                                      *)

\* The record a train gets when its turn is looked at on its own.
RecordAlone(state) ==
    IF call.fn = "get_yamanote_train_positions"
    THEN train_state_to_position(state, call.args.cache)
    ELSE BlendedTurn(state, call.args.gtfs_data, call.args.current_time, call.args.cache)

RECURSIVE RecordsAlone(_)
RecordsAlone(k) ==
    IF k = 0
    THEN << >>
    ELSE IF RecordAlone(call.args.states[k]).kind = "ok"
    THEN Append(RecordsAlone(k - 1), RecordAlone(call.args.states[k]).pos)
    ELSE RecordsAlone(k - 1)

\* C8: a fault raised at any step of one train never aborts the batch: both
\* batch functions return, and every other train gets the record it gets
\* without the faulty train.
C8_FaultNeverAbortsBatch ==
    /\ ret.kind # "raise"
    /\ ret.kind = "ok" => ret.value = RecordsAlone(Len(call.args.states))

\* The place of the train with this number in the schedule states.
PlaceOf(number) == CHOOSE k \in 1..Len(call.args.states) : call.args.states[k].number = number

\* C9: after a batch the output has at most one record per schedule state,
\* in the order of the states; the trains without record are counted, the
\* count is surfaced by the batch function, and records + skipped = states.
C9_SkippedCountSurfaced ==
    (ret.kind = "ok" /\ Len(call.args.states) > 0) =>
        /\ \A i, j \in 1..Len(ret.value) :
              i < j => PlaceOf(ret.value[i].number) < PlaceOf(ret.value[j].number)
        /\ "skipped" \in DOMAIN log
        /\ Len(ret.value) + log.skipped = Len(call.args.states)

\* C10: the progress of every output record lies in [0, 1].
C10_RecordProgressInUnitInterval ==
    \A i \in 1..Len(results) :
        results[i].progress # NoneNum =>
            0 <= results[i].progress /\ results[i].progress <= PROGRESS_ONE

-----------------------------------------------------------------------------
(* Claims about requests served twice and about the trains of one request  *)
(* (SpecCalls).                                                            *)

BatchCalled == call.fn \in BatchFunctions

OwnGtfsData(state) ==
    [n \in DOMAIN call.args.gtfs_data \cap {state.number} |-> call.args.gtfs_data[n]]

\* The record of a train from its own state and its own report.
OwnRecord(state) ==
    IF call.fn = "get_yamanote_train_positions"
    THEN train_state_to_position(state, call.args.cache)
    ELSE BlendedTurn(state, OwnGtfsData(state), call.args.current_time, call.args.cache)

RECURSIVE OwnRecords(_)
OwnRecords(k) ==
    IF k = 0
    THEN << >>
    ELSE IF OwnRecord(call.args.states[k]).kind = "ok"
    THEN Append(OwnRecords(k - 1), OwnRecord(call.args.states[k]).pos)
    ELSE OwnRecords(k - 1)

-----------------------------------------------------------------------------
(* Claims about single calls of the core functions (SpecCalls).            *)

\* train_state_to_position_with_override has returned for a stopped train.
StoppedCallReturned ==
    /\ call.fn = "train_state_to_position_with_override"
    /\ ret # Pending
    /\ call.args.state.is_stopped

\* The station a stopped train is placed at.
StationOfStoppedCall ==
    IF call.args.state.stopped_at_station_id # NoneVal
    THEN call.args.state.stopped_at_station_id
    ELSE call.args.state.from_station_id

\* The cache without any polyline geometry.
WithoutGeometry(cache) ==
    [cache EXCEPT !.track_points = << >>, !.station_track_indices = << >>]

\* C13: for a stopped train the synthesizer returns the coordinate of the
\* station it is stopped at, or of the from station when that is absent;
\* it returns None exactly when the chosen station has no known coordinate
\* or there is no station id; polyline geometry and progress play no part.
C13_StoppedTrainAtStation ==
    StoppedCallReturned =>
        /\ ret.kind \in {"ok", "none"}
        /\ ret.kind = "none" <=>
              \/ StationOfStoppedCall = NoneVal
              \/ StationOfStoppedCall \notin DOMAIN call.args.cache.station_positions
        /\ ret.kind = "ok" =>
              /\ ret.pos.is_stopped
              /\ ret.pos.station_id = StationOfStoppedCall
              /\ ret.pos.lon = call.args.cache.station_positions[StationOfStoppedCall][1]
              /\ ret.pos.lat = call.args.cache.station_positions[StationOfStoppedCall][2]
        /\ ret = train_state_to_position_with_override(
                     [call.args.state EXCEPT !.progress = NoneNum],
                     WithoutGeometry(call.args.cache), NoneNum,
                     call.args.data_quality, call.args.gtfs_info, NoneVal, NoneVal,
                     call.args.timetable_coords, call.args.gtfs_coords)

\* A train stopped with no stopped-at station is placed at its from
\* station, with override progress and override segment given.
C13_Witness ==
    /\ StoppedCallReturned
    /\ call.args.state.stopped_at_station_id = NoneVal
    /\ call.args.state.from_station_id = "JR-East.Yamanote.Harajuku"
    /\ call.args.override_progress # NoneNum
    /\ call.args.override_from_station # NoneVal
    /\ call.args.cache.track_points # << >>
    /\ ret.kind = "ok"
    /\ ret.pos.station_id = "JR-East.Yamanote.Harajuku"
    /\ ret.pos.lon = 10 * GRID_STEP

InterpolateReturned == call.fn = "_interpolate_coords" /\ ret # Pending

\* The polyline is not empty and both stations have a vertex index.
PolylineAvailable ==
    /\ call.args.cache.track_points # << >>
    /\ call.args.from_station_id \in DOMAIN call.args.cache.station_track_indices
    /\ call.args.to_station_id \in DOMAIN call.args.cache.station_track_indices

BothCoordsKnown ==
    /\ call.args.from_station_id \in DOMAIN call.args.cache.station_positions
    /\ call.args.to_station_id \in DOMAIN call.args.cache.station_positions

\* The point <<lon, lat>> lies on the edge from a to b.
OnEdge(lon, lat, a, b) ==
    /\ (b[1] - a[1]) * (lat - a[2]) = (b[2] - a[2]) * (lon - a[1])
    /\ Min2(a[1], b[1]) <= lon /\ lon <= Max2(a[1], b[1])
    /\ Min2(a[2], b[2]) <= lat /\ lat <= Max2(a[2], b[2])

\* The point lies on the closed polyline.
OnPolyline(lon, lat, track_points) ==
    \E i \in 1..Len(track_points) :
        OnEdge(lon, lat, track_points[i], track_points[(i % Len(track_points)) + 1])

\* C14: for a moving train _interpolate_coords returns None only if
\* neither the polyline of the pair nor both station coordinates are
\* available: with a polyline and a vertex index for both stations it
\* returns a point of the polyline, and otherwise, with both station
\* coordinates, the point lon1 + p * (lon2 - lon1), lat1 + p * (lat2 - lat1)
\* with p the progress clamped to [0, 1] (for a progress that is a number).
C14_BestEffortCoordinate ==
    InterpolateReturned =>
        /\ ret.kind = "none" => (~PolylineAvailable /\ ~BothCoordsKnown)
        /\ (PolylineAvailable /\ call.args.progress # NoneNum) =>
              /\ ret.kind = "ok"
              /\ OnPolyline(ret.lon, ret.lat, call.args.cache.track_points)
        /\ (~PolylineAvailable /\ BothCoordsKnown /\ call.args.progress # NoneNum) =>
              LET p == IF call.args.progress < 0 THEN 0
                       ELSE IF call.args.progress > PROGRESS_ONE THEN PROGRESS_ONE
                       ELSE call.args.progress
                  c1 == call.args.cache.station_positions[call.args.from_station_id]
                  c2 == call.args.cache.station_positions[call.args.to_station_id]
              IN  /\ ret.kind = "ok"
                  /\ ret.lon = c1[1] + (p * (c2[1] - c1[1])) \div PROGRESS_ONE
                  /\ ret.lat = c1[2] + (p * (c2[2] - c1[2])) \div PROGRESS_ONE

\* The straight-line fallback with a progress of 1.5: the to station has a
\* coordinate but no vertex index, and the point is the to station.
C14_Witness ==
    /\ InterpolateReturned
    /\ call.args.cache.track_points # << >>
    /\ call.args.from_station_id = "JR-East.Yamanote.Kanda"
    /\ call.args.to_station_id = STATION_WITHOUT_INDEX
    /\ call.args.progress > PROGRESS_ONE
    /\ ret.kind = "ok"
    /\ <<ret.lon, ret.lat>> = call.args.cache.station_positions[STATION_WITHOUT_INDEX]

\* find_train_on_segments has returned, for a point with both coordinates.
FindReturned ==
    /\ call.fn = "find_train_on_segments"
    /\ ret # Pending
    /\ call.args.gtfs_lat # NoneNum
    /\ call.args.gtfs_lon # NoneNum

\* The candidate segments of the call: nominal, previous, next.
CandidatesOfCall ==
    get_adjacent_segments(call.args.from_station_id, call.args.to_station_id,
                          call.args.direction)

\* The estimate of candidate i (1-based) of the call; its kind is "none"
\* when the candidate rejected the point or has no polyline.
FitOfCandidate(i) ==
    CandidateFit(get_segment_coords(CandidatesOfCall[i][1], CandidatesOfCall[i][2],
                                    call.args.direction, call.args.cache),
                 call.args.gtfs_lat, call.args.gtfs_lon, call.args.max_distance_m)

\* C15: find_train_on_segments returns the candidate with the smallest
\* distance among the candidates that did not reject (None when all
\* rejected); is_neighbor is false exactly when the winner is the nominal
\* candidate and true exactly when it is the previous or the next one;
\* segment, progress and coordinate are the winner's.
C15_NearestCandidateWins ==
    FindReturned =>
        /\ ret.kind \in {"ok", "none"}
        /\ ret.kind = "none" <=>
              \A i \in 1..Len(CandidatesOfCall) : FitOfCandidate(i).kind # "ok"
        /\ ret.kind = "ok" =>
              /\ \E w \in 1..Len(CandidatesOfCall) :
                    /\ ret.segment = CandidatesOfCall[w]
                    /\ FitOfCandidate(w).kind = "ok"
                    /\ ret.progress = FitOfCandidate(w).progress
                    /\ ret.distance_m = FitOfCandidate(w).distance_m
                    /\ ret.lon = FitOfCandidate(w).lon
                    /\ ret.lat = FitOfCandidate(w).lat
                    /\ ret.is_neighbor <=> w \in {2, 3}
                    /\ ~ret.is_neighbor <=> w = 1
              /\ \A j \in 1..Len(CandidatesOfCall) :
                    FitOfCandidate(j).kind = "ok" =>
                        ret.distance_m <= FitOfCandidate(j).distance_m

\* The previous segment wins over the nominal one, which did not reject
\* the point but is farther from it.
C15_Witness ==
    /\ FindReturned
    /\ ret.kind = "ok"
    /\ ret.is_neighbor
    /\ ret.segment = CandidatesOfCall[2]
    /\ FitOfCandidate(1).kind = "ok"
    /\ FitOfCandidate(1).distance_m > ret.distance_m
    /\ ret.distance_m > 0

PathReturned ==
    /\ call.fn \in {"_get_path_points", "get_segment_coords"}
    /\ ret.kind = "ok"

\* The polyline, the two vertex indices and the direction of the call.
TrackOfCall ==
    IF call.fn = "_get_path_points" THEN call.args.track_points
    ELSE call.args.cache.track_points

FromIndexOfCall ==
    IF call.fn = "_get_path_points" THEN call.args.start_idx
    ELSE call.args.cache.station_track_indices[call.args.from_station_id]

ToIndexOfCall ==
    IF call.fn = "_get_path_points" THEN call.args.end_idx
    ELSE call.args.cache.station_track_indices[call.args.to_station_id]

\* The vertex with the 0-based index k modulo the number of vertices.
VertexOfCall(k) == TrackOfCall[(k % Len(TrackOfCall)) + 1]

\* The resolver applied to the opposite pair in the outer direction.
OuterPathBack ==
    IF call.fn = "_get_path_points"
    THEN _get_path_points(call.args.end_idx, call.args.start_idx, "OuterLoop",
                          call.args.track_points)
    ELSE get_segment_coords(call.args.to_station_id, call.args.from_station_id,
                            "OuterLoop", call.args.cache)

\* C18: for the outer direction and every pair of valid vertex indices of
\* a polyline of M vertices the resolved path is the vertices from_index,
\* from_index + 1, ..., to_index modulo M (the inclusive slice, or the tail
\* followed by the head): it starts at the from vertex, ends at the to
\* vertex, has ((to_index - from_index) mod M) + 1 vertices and repeats
\* none.
C18_OuterPathWalksUp ==
    (PathReturned /\ call.args.direction = "OuterLoop") =>
        LET M == Len(TrackOfCall)
            n == ((ToIndexOfCall - FromIndexOfCall) % M) + 1
        IN  /\ Len(ret.value) = n
            /\ \A i \in 1..n : ret.value[i] = VertexOfCall(FromIndexOfCall + i - 1)
            /\ ret.value[1] = TrackOfCall[FromIndexOfCall + 1]
            /\ ret.value[n] = TrackOfCall[ToIndexOfCall + 1]
            /\ \A i, j \in 1..n : i # j => ret.value[i] # ret.value[j]
            /\ FromIndexOfCall <= ToIndexOfCall =>
                  ret.value = SubSeq(TrackOfCall, FromIndexOfCall + 1, ToIndexOfCall + 1)
            /\ FromIndexOfCall > ToIndexOfCall =>
                  ret.value = SubSeq(TrackOfCall, FromIndexOfCall + 1, M)
                                \o SubSeq(TrackOfCall, 1, ToIndexOfCall + 1)

\* An outer path across the seam: from the last vertex but one to the
\* second vertex of a polyline of MaxVertices vertices.
C18_Witness ==
    /\ PathReturned
    /\ call.args.direction = "OuterLoop"
    /\ Len(TrackOfCall) >= 4
    /\ FromIndexOfCall = Len(TrackOfCall) - 2
    /\ ToIndexOfCall = 1
    /\ Len(ret.value) = 4
    /\ ret.value[3] = TrackOfCall[1]

\* C19: the inner direction is the mirror of the outer one: the inner path
\* from a to b is the reverse of the outer path from b to a; it walks the
\* vertex indices a, a - 1, ..., b modulo M, starts at a's vertex and ends
\* at b's, also across the seam between index 0 and index M - 1.
C19_InnerPathMirrorsOuter ==
    (PathReturned /\ call.args.direction = "InnerLoop") =>
        LET M == Len(TrackOfCall)
            n == ((FromIndexOfCall - ToIndexOfCall) % M) + 1
        IN  /\ Len(ret.value) = n
            /\ Len(OuterPathBack) = n
            /\ \A i \in 1..n : ret.value[i] = OuterPathBack[n + 1 - i]
            /\ \A i \in 1..n : ret.value[i] = VertexOfCall(FromIndexOfCall + M - (i - 1))
            /\ ret.value[1] = TrackOfCall[FromIndexOfCall + 1]
            /\ ret.value[n] = TrackOfCall[ToIndexOfCall + 1]

\* An inner path across the seam: from the second vertex down to the last
\* vertex but one.
C19_Witness ==
    /\ PathReturned
    /\ call.args.direction = "InnerLoop"
    /\ Len(TrackOfCall) >= 4
    /\ FromIndexOfCall = 1
    /\ ToIndexOfCall = Len(TrackOfCall) - 2
    /\ Len(ret.value) = 4
    /\ ret.value[2] = TrackOfCall[1]

\* All the vertices of a path are the same point.
AllCoincide(path) == \A i \in 1..Len(path) : path[i] = path[1]

\* Two consecutive vertices of a path are the same point.
HasZeroEdge(path) == \E i \in 1..(Len(path) - 1) : path[i] = path[i + 1]

\* The length in meters the estimator sums up for its polyline.
TotalLengthOfCall ==
    cumulative_distances(call.args.segment_coords, Len(call.args.segment_coords) - 1)

\* The resolver on one vertex index for both ends returns that vertex only.
ResolverSinglePoint ==
    (PathReturned /\ FromIndexOfCall = ToIndexOfCall) =>
        ret.value = << TrackOfCall[FromIndexOfCall + 1] >>

\* The estimator returns None for an empty list, a single point and a
\* polyline shorter than 1 m, whatever the target.
EstimatorRejectsDegenerate ==
    (/\ call.fn = "estimate_segment_progress_extended"
     /\ ret # Pending
     /\ \/ Len(call.args.segment_coords) < 2
        \/ TotalLengthOfCall < 1) => ret = ReturnsNone

\* The estimator on a longer polyline with two equal consecutive vertices
\* and a numeric target returns a fit or None, and a fit lies in [0, 1].
EstimatorSurvivesZeroEdge ==
    (/\ call.fn = "estimate_segment_progress_extended"
     /\ ret # Pending
     /\ HasZeroEdge(call.args.segment_coords)
     /\ call.args.target_lat # NoneNum
     /\ call.args.target_lon # NoneNum) =>
        /\ ret.kind \in {"ok", "none"}
        /\ ret.kind = "ok" => ret.progress \in 0..PROGRESS_ONE

\* The projection onto a sub-segment whose ends are equal has t = 0 and
\* the end as nearest point.
ZeroEdgeProjectsToStart ==
    (/\ call.fn = "point_to_segment_distance"
     /\ ret # Pending
     /\ call.args.ax = call.args.bx
     /\ call.args.ay = call.args.by) =>
        /\ ret.value.t.num = 0
        /\ ret.value.t.den > 0
        /\ ret.value.nearest_lon = call.args.ax
        /\ ret.value.nearest_lat = call.args.ay
        /\ ret.value.dist = haversine_distance(call.args.py, call.args.px,
                                               call.args.ay, call.args.ax)

\* The synthesizer returns the point of a single-point path for every
\* progress, and the first point of coinciding vertices for every numeric
\* progress.
SynthesizerOnDegenerate ==
    (/\ call.fn = "_get_point_on_path"
     /\ ret # Pending
     /\ call.args.path # << >>
     /\ AllCoincide(call.args.path)
     /\ Len(call.args.path) = 1 \/ call.args.progress # NoneNum) =>
        ret = [kind |-> "ok", lon |-> call.args.path[1][1], lat |-> call.args.path[1][2]]

\* C20: degenerate geometry is never projected and never divides by zero:
\* the resolver returns a single-point list when both ends map to one
\* vertex index; the estimator returns None for an empty list, a single
\* point or a total length below 1 m; a zero-length sub-segment inside a
\* longer polyline yields t = 0; the synthesizer returns the single point,
\* or the first point when all vertices coincide.
C20_DegenerateGeometry ==
    /\ ResolverSinglePoint
    /\ EstimatorRejectsDegenerate
    /\ EstimatorSurvivesZeroEdge
    /\ ZeroEdgeProjectsToStart
    /\ SynthesizerOnDegenerate

\* The projection of a target off the track onto a sub-segment of length
\* zero has returned.
C20_Witness ==
    /\ call.fn = "point_to_segment_distance"
    /\ ret # Pending
    /\ call.args.ax = call.args.bx
    /\ call.args.ay = call.args.by
    /\ call.args.py # call.args.ay
    /\ ret.value.dist > 0
    /\ ret.value.t.num = 0

-----------------------------------------------------------------------------
(* Claims about unavailable geometry, the distance threshold and the       *)
(* projection.                                                             *)

\* The geometry of a segment is available in a cache: both stations have a
\* vertex index and the polyline is not empty.
GeometryAvailable(from_station_id, to_station_id, cache) ==
    /\ from_station_id \in DOMAIN cache.station_track_indices
    /\ to_station_id \in DOMAIN cache.station_track_indices
    /\ cache.track_points # << >>

\* The candidates (1-based) of the search call whose geometry is available.
RemainingCandidates ==
    {i \in 1..Len(CandidatesOfCall) :
        GeometryAvailable(CandidatesOfCall[i][1], CandidatesOfCall[i][2], call.args.cache)}

\* The estimate on the polyline of a remaining candidate.
EstimateOfCandidate(i) ==
    estimate_segment_progress_extended(
        get_segment_coords(CandidatesOfCall[i][1], CandidatesOfCall[i][2],
                           call.args.direction, call.args.cache),
        call.args.gtfs_lat, call.args.gtfs_lon, call.args.max_distance_m)

\* C21: when the geometry of a segment is unavailable (a station without
\* vertex index, or an empty polyline) get_segment_coords returns None
\* without raising, and find_train_on_segments skips only that candidate:
\* its result is the best of the remaining candidates, and None when no
\* candidate remains.
C21_UnavailableGeometryIsSkipped ==
    /\ (call.fn = "get_segment_coords" /\ ret # Pending) =>
          IF GeometryAvailable(call.args.from_station_id, call.args.to_station_id,
                               call.args.cache)
          THEN ret.kind \in {"ok", "changed"}
          ELSE ret = ReturnsNone
    /\ (call.fn = "find_train_on_segments" /\ ret # Pending /\ RemainingCandidates = {}) =>
          ret = ReturnsNone
    /\ FindReturned =>
          /\ ret.kind \in {"ok", "none"}
          /\ ret.kind = "none" <=>
                \A i \in RemainingCandidates : EstimateOfCandidate(i).kind # "ok"
          /\ ret.kind = "ok" =>
                /\ \E w \in RemainingCandidates :
                      /\ ret.segment = CandidatesOfCall[w]
                      /\ EstimateOfCandidate(w).kind = "ok"
                      /\ ret.progress = EstimateOfCandidate(w).progress
                      /\ ret.distance_m = EstimateOfCandidate(w).distance_m
                /\ \A j \in RemainingCandidates :
                      EstimateOfCandidate(j).kind = "ok" =>
                          ret.distance_m <= EstimateOfCandidate(j).distance_m

\* The nominal and the previous candidate have no geometry (their station
\* has no vertex index) and the search returns the fit on the next one.
C21_Witness ==
    /\ FindReturned
    /\ RemainingCandidates = {3}
    /\ call.args.cache.track_points # << >>
    /\ ret.kind = "ok"
    /\ ret.segment = CandidatesOfCall[3]
    /\ ret.is_neighbor

\* One of the two estimators has returned, for a target with both
\* coordinates and a polyline of two or more points and of 1 m or more.
ProjectionReturned ==
    /\ call.fn \in {"estimate_segment_progress_extended", "estimate_segment_progress"}
    /\ ret # Pending
    /\ call.args.target_lat # NoneNum
    /\ call.args.target_lon # NoneNum
    /\ Len(call.args.segment_coords) >= 2
    /\ TotalLengthOfCall >= 1

\* The distance in metres from a target to its clamped projection on
\* sub-segment i (1-based) of a polyline.
SubSegmentDistance(segment_coords, target_lat, target_lon, i) ==
    point_to_segment_distance(target_lon, target_lat,
                              segment_coords[i][1], segment_coords[i][2],
                              segment_coords[i + 1][1], segment_coords[i + 1][2]).dist

\* The minimal distance from a target to a polyline.
MinDistance(segment_coords, target_lat, target_lon) ==
    CHOOSE d \in {SubSegmentDistance(segment_coords, target_lat, target_lon, i) :
                     i \in 1..(Len(segment_coords) - 1)} :
        \A j \in 1..(Len(segment_coords) - 1) :
            d <= SubSegmentDistance(segment_coords, target_lat, target_lon, j)

MinDistanceOfCall ==
    MinDistance(call.args.segment_coords, call.args.target_lat, call.args.target_lon)

\* The minimal distance from the report of a search call to the polyline
\* of candidate i.
MinDistanceOfCandidate(i) ==
    MinDistance(get_segment_coords(CandidatesOfCall[i][1], CandidatesOfCall[i][2],
                                   call.args.direction, call.args.cache),
                call.args.gtfs_lat, call.args.gtfs_lon)

\* C22: for a projectable polyline the estimator returns None if and only
\* if the minimal distance from the target to the polyline is strictly
\* greater than max_distance_m: a target at exactly max_distance_m is
\* accepted and every result has distance_m <= max_distance_m.  The same
\* holds for every result of find_train_on_segments.
C22_RejectStrictlyBeyondThreshold ==
    /\ ProjectionReturned =>
          /\ ret.kind \in {"ok", "none"}
          /\ ret.kind = "none" <=> MinDistanceOfCall > call.args.max_distance_m
          /\ (ret.kind = "ok" /\ call.fn = "estimate_segment_progress_extended") =>
                /\ ret.distance_m = MinDistanceOfCall
                /\ ret.distance_m <= call.args.max_distance_m
    /\ FindReturned =>
          /\ ret.kind = "ok" => ret.distance_m <= call.args.max_distance_m
          /\ ret.kind = "none" <=>
                \A i \in RemainingCandidates :
                    MinDistanceOfCandidate(i) > call.args.max_distance_m

\* A target at exactly max_distance_m from the polyline, off the track, is
\* accepted.
C22_Witness ==
    /\ ProjectionReturned
    /\ call.fn = "estimate_segment_progress_extended"
    /\ call.args.max_distance_m = MAX_DISTANCE_M
    /\ ret.kind = "ok"
    /\ ret.distance_m = MAX_DISTANCE_M

\* The clamped planar projection of the target of the call on sub-segment
\* i (1-based) of its polyline.
ProjectionOnSubSegment(i) ==
    point_to_segment_distance(call.args.target_lon, call.args.target_lat,
                              call.args.segment_coords[i][1], call.args.segment_coords[i][2],
                              call.args.segment_coords[i + 1][1],
                              call.args.segment_coords[i + 1][2])

\* (cumulative_length[i - 1] + t * length[i]) / total_length for the
\* projection on sub-segment i (1-based), clamped to [0, 1].
ProgressOnSubSegment(i) ==
    LET before == cumulative_distances(call.args.segment_coords, i - 1)
        length == cumulative_distances(call.args.segment_coords, i) - before
        t == ProjectionOnSubSegment(i).t
    IN  Clamp01((PROGRESS_ONE * (before * t.den + t.num * length))
                  \div (t.den * TotalLengthOfCall))

\* C23: for every accepted projection distance_m is the minimum over the
\* sub-segments of the distance from the target to its clamped planar
\* projection, the nearest coordinate is that projection and progress is
\* (cumulative_length[best] + t * length[best]) / total_length clamped to
\* [0, 1] for the minimising sub-segment; for a polyline of two vertices
\* the progress is the clamped projection parameter t: 0 at the start
\* vertex, 0.5 half way, 1 at the end vertex.
C23_ProgressOfNearestProjection ==
    (ProjectionReturned /\ ret.kind = "ok") =>
        /\ \E best \in 1..(Len(call.args.segment_coords) - 1) :
              /\ ProjectionOnSubSegment(best).dist = MinDistanceOfCall
              /\ ret.progress = ProgressOnSubSegment(best)
              /\ call.fn = "estimate_segment_progress_extended" =>
                    /\ ret.distance_m = ProjectionOnSubSegment(best).dist
                    /\ ret.lon = ProjectionOnSubSegment(best).nearest_lon
                    /\ ret.lat = ProjectionOnSubSegment(best).nearest_lat
        /\ ret.progress \in 0..PROGRESS_ONE
        /\ Len(call.args.segment_coords) = 2 =>
              /\ ret.progress = (PROGRESS_ONE * ProjectionOnSubSegment(1).t.num)
                                  \div ProjectionOnSubSegment(1).t.den
              /\ <<call.args.target_lon, call.args.target_lat>> = call.args.segment_coords[1]
                    => ret.progress = 0
              /\ <<call.args.target_lon, call.args.target_lat>> = call.args.segment_coords[2]
                    => ret.progress = PROGRESS_ONE
              /\ (/\ 2 * call.args.target_lon
                       = call.args.segment_coords[1][1] + call.args.segment_coords[2][1]
                  /\ 2 * call.args.target_lat
                       = call.args.segment_coords[1][2] + call.args.segment_coords[2][2])
                    => ret.progress = PROGRESS_ONE \div 2

\* A target off the track whose nearest point lies inside the second
\* sub-segment of a polyline of three vertices.
C23_Witness ==
    /\ ProjectionReturned
    /\ call.fn = "estimate_segment_progress_extended"
    /\ Len(call.args.segment_coords) = 3
    /\ ret.kind = "ok"
    /\ ret.distance_m > 0
    /\ ProjectionOnSubSegment(2).dist < ProjectionOnSubSegment(1).dist
    /\ ProjectionOnSubSegment(2).t.num > 0
    /\ ProjectionOnSubSegment(2).t.num < ProjectionOnSubSegment(2).t.den
    /\ ret.progress > PROGRESS_ONE \div 2
    /\ ret.progress < PROGRESS_ONE

-----------------------------------------------------------------------------
(* Claims about the synthesizer against the estimator and about the two    *)
(* resolvers.                                                              *)

\* _get_point_on_path has returned the point of a progress in [0, 1] on a
\* polyline of three or more vertices that the estimator can project on.
SynthesizedOnPolyline ==
    /\ call.fn = "_get_point_on_path"
    /\ ret # Pending
    /\ Len(call.args.path) >= 3
    /\ call.args.progress \in 0..PROGRESS_ONE
    /\ cumulative_distances(call.args.path, Len(call.args.path) - 1) >= 1

\* The estimate of the synthesized point on the polyline it was
\* synthesized on.
ProjectedBack ==
    estimate_segment_progress_extended(call.args.path, ret.lat, ret.lon, MAX_DISTANCE_M)

\* C24: the synthesizer places a train at the arc-length point of the
\* polyline with the per-edge length measure of the estimator: the point
\* of a progress p in [0, 1] on a polyline of three or more vertices,
\* projected back onto the same polyline, has progress p (to one part in
\* PROGRESS_ONE, the resolution of the fixed point).
C24_SynthesizedPointProjectsBack ==
    SynthesizedOnPolyline =>
        /\ ret.kind = "ok"
        /\ ProjectedBack.kind = "ok"
        /\ ProjectedBack.distance_m = 0
        /\ Abs(ProjectedBack.progress - call.args.progress) <= 1

\* C25: the feed client's get_train_number drops the 4-character prefix of
\* the trip id and removes the zero padding of the numeric part (4201301G
\* gives 301G, 42020906G gives 906G, 42110002G gives 2G), so that the key
\* of a report equals the timetable's train number and the lookup
\* gtfs_data[state.train.number] finds the report.
C25_FeedKeyIsTimetableNumber ==
    (/\ call.fn = "get_train_number"
     /\ ret # Pending
     /\ Len(call.args.trip_id) > 4) =>
        /\ ret.value = test_get_train_number(call.args.trip_id)
        /\ MatchReport([number |-> test_get_train_number(call.args.trip_id)],
                       FeedData(call.args.trip_id)) # ReturnsNone

\* The other resolver applied to the polyline, the vertex indices and the
\* direction of the call.
OtherResolver(direction) ==
    IF call.fn = "_get_path_points"
    THEN get_segment_coords("from", "to", direction,
             [track_points |-> call.args.track_points,
              station_track_indices |->
                 ("from" :> call.args.start_idx) @@ ("to" :> call.args.end_idx)])
    ELSE _get_path_points(FromIndexOfCall, ToIndexOfCall, direction, TrackOfCall)

\* C26: the two polyline resolvers agree: for every non-empty polyline,
\* every pair of valid vertex indices and every direction value
\* _get_path_points and get_segment_coords return the same sequence of
\* vertices, and both treat a direction other than OuterLoop as the inner
\* direction.
C26_ResolversAgree ==
    PathReturned =>
        /\ ret.value = OtherResolver(call.args.direction)
        /\ call.args.direction # "OuterLoop" => ret.value = OtherResolver("InnerLoop")
        /\ Len(ret.value) >= 1

\* _get_path_points with the direction 'Unknown' across the seam of a
\* polyline of four or more vertices.
C26_Witness ==
    /\ PathReturned
    /\ call.fn = "_get_path_points"
    /\ call.args.direction = "Unknown"
    /\ Len(call.args.track_points) >= 4
    /\ call.args.start_idx = 1
    /\ call.args.end_idx = Len(call.args.track_points) - 2
    /\ Len(ret.value) = 4

-----------------------------------------------------------------------------
(* Claims about ties.                                                      *)

\* The remaining candidates of the search call whose estimate is at the
\* distance d.
CandidatesAt(d) ==
    {i \in RemainingCandidates :
        /\ EstimateOfCandidate(i).kind = "ok"
        /\ EstimateOfCandidate(i).distance_m = d}

\* The sub-segments (1-based) of the estimator call at the minimal
\* distance.
SubSegmentsAtMinimum ==
    {i \in 1..(Len(call.args.segment_coords) - 1) :
        ProjectionOnSubSegment(i).dist = MinDistanceOfCall}

\* The least number of a non-empty set of numbers.
First(S) == CHOOSE i \in S : \A j \in S : i <= j

\* C27: ties are broken towards the earlier candidate: of the candidates
\* fitting at the same distance the nominal one wins over both neighbors
\* and the previous one over the next one, so is_neighbor is true only when
\* a neighbor is strictly closer than the nominal segment; within one
\* polyline the first sub-segment reaching the minimal distance gives the
\* progress.
C27_TiesGoToTheEarlier ==
    /\ (FindReturned /\ ret.kind = "ok") =>
          /\ CandidatesAt(ret.distance_m) # {}
          /\ ret.segment = CandidatesOfCall[First(CandidatesAt(ret.distance_m))]
          /\ ret.progress = EstimateOfCandidate(First(CandidatesAt(ret.distance_m))).progress
          /\ ret.is_neighbor <=> First(CandidatesAt(ret.distance_m)) > 1
          /\ (ret.is_neighbor /\ 1 \in RemainingCandidates) =>
                \/ EstimateOfCandidate(1).kind = "none"
                \/ EstimateOfCandidate(1).distance_m > ret.distance_m
    /\ (ProjectionReturned /\ ret.kind = "ok") =>
          ret.progress = ProgressOnSubSegment(First(SubSegmentsAtMinimum))

\* The previous and the next candidate fit at the same distance, closer
\* than the nominal one, and the previous one is returned.
C27_Witness ==
    /\ FindReturned
    /\ ret.kind = "ok"
    /\ CandidatesAt(ret.distance_m) = {2, 3}
    /\ ret.segment = CandidatesOfCall[2]
    /\ EstimateOfCandidate(1).kind = "ok"
    /\ EstimateOfCandidate(1).distance_m > ret.distance_m

-----------------------------------------------------------------------------
(* Claims about the records of get_blended_train_positions.                *)

\* The turn appended a record for a moving train.
MovingRecord == MovingTurn /\ locals.kind = "ok"

\* C28: for a moving train whose quality is timetable_only, rejected or
\* error the record is the pure timetable position: the schedule state's
\* from and to stations, the schedule progress, and the comparison
\* coordinate (timetable_lat, timetable_lon) as coordinate; schedule
\* progress is never applied to a neighbor segment.
C28_DegradedRecordIsTimetablePosition ==
    (/\ MovingRecord
     /\ RecordOfTurn.data_quality \in {"timetable_only", "rejected", "error"}) =>
        /\ RecordOfTurn.from_station_id = locals.state.from_station_id
        /\ RecordOfTurn.to_station_id = locals.state.to_station_id
        /\ RecordOfTurn.progress = locals.state.progress
        /\ RecordOfTurn.lat = RecordOfTurn.timetable_lat
        /\ RecordOfTurn.lon = RecordOfTurn.timetable_lon

\* The candidate segments of the train of the turn: nominal, previous,
\* next.
CandidatesOfTurn ==
    get_adjacent_segments(locals.state.from_station_id, locals.state.to_station_id,
                          locals.state.direction)

\* The place of a progress on one of the candidate segments along the
\* direction of travel, measured from the from station of the nominal
\* segment in parts of PROGRESS_ONE per segment: the previous segment lies
\* one segment behind the nominal one and the next one ahead of it.
PlaceAlongTravel(segment, progress) ==
    IF segment = CandidatesOfTurn[1] THEN progress
    ELSE IF segment = CandidatesOfTurn[2] THEN progress - PROGRESS_ONE
    ELSE progress + PROGRESS_ONE

TimetablePlace == PlaceAlongTravel(CandidatesOfTurn[1], locals.state.progress)

RealTimePlace == PlaceAlongTravel(SearchOfTurn.segment, SearchOfTurn.progress)

OutputPlace ==
    PlaceAlongTravel(<<RecordOfTurn.from_station_id, RecordOfTurn.to_station_id>>,
                     RecordOfTurn.progress)

\* The turn matched the report of a moving train whose schedule progress
\* is in [0, 1], used it (quality good or stale) and appended the record.
BlendedRecord ==
    /\ MatchedTurn
    /\ locals.kind = "ok"
    /\ locals.state.progress \in 0..PROGRESS_ONE
    /\ Len(CandidatesOfTurn) = 3
    /\ RecordOfTurn.data_quality \in {"good", "stale"}

\* C29: for a moving train with a real-time match the output position
\* lies, along the direction of travel, between the pure timetable
\* position (nominal segment, schedule progress) and the matched real-time
\* position (winning segment, projected progress), inclusive: never ahead
\* of both nor behind both, also when the match is on the previous or the
\* next segment and the report is in the stale window.
C29_OutputBetweenTimetableAndRealTime ==
    BlendedRecord =>
        /\ OutputPlace >= Min2(TimetablePlace, RealTimePlace)
        /\ OutputPlace <= Max2(TimetablePlace, RealTimePlace)

\* The turn appended a record.
RecordAppended == BlendedTurnTaken /\ locals.kind = "ok"

\* The shape of the record of a stopped train.
StoppedShape ==
    /\ RecordOfTurn.station_id # NoneVal
    /\ RecordOfTurn.station_id = StoppedStationId(locals.state)
    /\ RecordOfTurn.from_station_id = NoneVal
    /\ RecordOfTurn.to_station_id = NoneVal
    /\ RecordOfTurn.progress = 0
    /\ <<RecordOfTurn.lon, RecordOfTurn.lat>>
          = call.args.cache.station_positions[RecordOfTurn.station_id]
    /\ RecordOfTurn.data_quality = "timetable_only"
    /\ locals.after_try = InitialLocals(locals.state)

\* The shape of the record of a moving train.
MovingShape ==
    /\ RecordOfTurn.station_id = NoneVal
    /\ RecordOfTurn.from_station_id # NoneVal
    /\ RecordOfTurn.to_station_id # NoneVal

\* The passthrough of the report: its stop_sequence, status and
\* coordinate when the feed has one for the train number, None otherwise.
ReportPassedThrough ==
    IF ReportOfTurn.kind = "ok"
    THEN /\ RecordOfTurn.gtfs_stop_sequence = ReportOfTurn.stop_sequence
         /\ RecordOfTurn.gtfs_status = ReportOfTurn.status
         /\ RecordOfTurn.gtfs_lat = ReportOfTurn.latitude
         /\ RecordOfTurn.gtfs_lon = ReportOfTurn.longitude
         /\ RecordOfTurn.gtfs_stop_sequence # NoneNum
         /\ RecordOfTurn.gtfs_status # NoneNum
         /\ ReportOfTurn.latitude # NoneNum => RecordOfTurn.gtfs_lat # NoneNum
         /\ ReportOfTurn.longitude # NoneNum => RecordOfTurn.gtfs_lon # NoneNum
    ELSE /\ RecordOfTurn.gtfs_stop_sequence = NoneNum
         /\ RecordOfTurn.gtfs_status = NoneNum
         /\ RecordOfTurn.gtfs_lat = NoneNum
         /\ RecordOfTurn.gtfs_lon = NoneNum

\* C30: every record of get_blended_train_positions has one of two
\* shapes.  Stopped: is_stopped, a station_id, no from and to stations,
\* progress 0, the station's coordinate and quality timetable_only,
\* whatever report the feed has for the train (it is neither projected nor
\* blended).  Moving: not is_stopped, no station_id, a from and a to
\* station.  In both the stop_sequence, the status and the comparison
\* coordinate of the report are present exactly when the feed has a report
\* for the train number (a report that carries its coordinates).
C30_RecordHasOneOfTwoShapes ==
    RecordAppended =>
        /\ RecordOfTurn.is_stopped = locals.state.is_stopped
        /\ IF RecordOfTurn.is_stopped THEN StoppedShape ELSE MovingShape
        /\ ReportPassedThrough

\* The record of a stopped train for which the feed has a report with both
\* coordinates, away from the station.
C30_Witness ==
    /\ RecordAppended
    /\ RecordOfTurn.is_stopped
    /\ ReportOfTurn.kind = "ok"
    /\ RecordOfTurn.gtfs_lat # NoneNum
    /\ RecordOfTurn.gtfs_lon # RecordOfTurn.lon
    /\ RecordOfTurn.data_quality = "timetable_only"

====
